---- MODULE Spec2Model ----
(***************************************************************************)
(* A model of dissect.vmfs: the VMFS address codec, the LVM volume         *)
(* assembler and its stream, the file block streams and the directory      *)
(* lookup.                                                                 *)
(*                                                                         *)
(* Addresses are 32-bit and 64-bit integers.  TLC's integers are 32-bit    *)
(* signed, so an address (and every value the codec shifts or masks) is    *)
(* modelled as the set of the positions of its 1 bits: 5 is {0, 2}.        *)
(* Shifts, masks and ors are then exact at any width.                      *)
(***************************************************************************)
EXTENDS Integers, Sequences, FiniteSets, TLC

VARIABLES
    a_kind,      \* address codec: the address class under test
    a_in,        \* address codec: the arguments given to make
    a_addr,      \* address codec: the address make returned
    a_out,       \* address codec: what parse and the accessors returned
    a_pc,        \* address codec: "input" | "made" | "parsed"
    l_desc,      \* LVM: device -> the LVM_VolDescriptor of the volume on that device
    l_pes,       \* LVM: device -> the LVM_PETableEntry list of the device
    l_devices,   \* LVM: Volume.devices (sorted by firstPE in Volume.__init__)
    l_dr,        \* LVM: the outcome of a call of Volume.dataruns()
    l_open,      \* LVM: the outcome of Volume.open()
    l_stream,    \* LVM: the VolumeStream (runs, _lookup), when open() returned one
    l_rd,        \* LVM: the call of VolumeStream._read in progress, or its outcome
    f_vmfs,      \* files: the filesystem: version, volume handle or not, open resources
    f_fd,        \* files: the file descriptor: ZLA, block array, size
    f_pb,        \* files: volume offset of a pointer block -> the addresses it holds
    f_rd,        \* files: the call of a stream's _read in progress, or its outcome
    d_dir,       \* directories: the descriptor of a directory and the content of its file
    d_rd,        \* directories: the call of iterdir() or get() in progress, or its outcome
    m_fh,        \* devices: offset -> the metadata block of the device at that offset
    m_dev,       \* devices: the Device under construction, or the outcome of Device.__init__
    t_fd,        \* descriptor types: the file descriptor: its type, its mode, the volume handle
    t_rd,        \* descriptor types: the outcome of an operation on the descriptor
    r_res,       \* resources: a resource file: the version of the filesystem and its FS3_ResFileMetadata
    r_rd,        \* resources: the outcome of an offset computation on the resource file
    o_fs,        \* offsets: the filesystem: its version, its open resources and its sizes
    o_rd,        \* offsets: the outcome of _resolve_offset or _offset_to_block_address
    e_dir,       \* VMFS5 directory: the bytes of its file as FS3_DirEntry slots, and its fileLength
    e_rd,        \* VMFS5 directory: the outcome of iterdir()
    h_in,        \* name hash: the name, in_root, and the 64-bit value lookup8_quads gives for it
    h_rd,        \* name hash: the outcome of _dir_name_hash
    g_mgr,       \* resource manager: the VMFS version and self.resources
    g_rd         \* resource manager: the last call of open, close or has and its outcome

avars == <<a_kind, a_in, a_addr, a_out, a_pc>>
lvars == <<l_desc, l_pes, l_devices, l_dr, l_open, l_stream, l_rd>>
fvars == <<f_vmfs, f_fd, f_pb, f_rd>>
dvars == <<d_dir, d_rd>>
mvars == <<m_fh, m_dev>>
tvars == <<t_fd, t_rd>>
rvars == <<r_res, r_rd>>
ovars == <<o_fs, o_rd>>
evars == <<e_dir, e_rd>>
hvars == <<h_in, h_rd>>
gvars == <<g_mgr, g_rd>>
vars == <<avars, lvars, fvars, dvars, mvars, tvars, rvars, ovars, evars, hvars, gvars>>

OtherThanAddr == <<lvars, fvars, dvars, mvars, tvars, rvars, ovars, evars, hvars, gvars>>
OtherThanLvm == <<avars, fvars, dvars, mvars, tvars, rvars, ovars, evars, hvars, gvars>>
OtherThanFile == <<avars, lvars, dvars, mvars, tvars, rvars, ovars, evars, hvars, gvars>>
OtherThanDir == <<avars, lvars, fvars, mvars, tvars, rvars, ovars, evars, hvars, gvars>>
OtherThanDev == <<avars, lvars, fvars, dvars, tvars, rvars, ovars, evars, hvars, gvars>>
OtherThanType == <<avars, lvars, fvars, dvars, mvars, rvars, ovars, evars, hvars, gvars>>
OtherThanRes == <<avars, lvars, fvars, dvars, mvars, tvars, ovars, evars, hvars, gvars>>
OtherThanOffset == <<avars, lvars, fvars, dvars, mvars, tvars, rvars, evars, hvars, gvars>>
OtherThanEnts == <<avars, lvars, fvars, dvars, mvars, tvars, rvars, ovars, hvars, gvars>>
OtherThanHash == <<avars, lvars, fvars, dvars, mvars, tvars, rvars, ovars, evars, gvars>>
OtherThanMgr == <<avars, lvars, fvars, dvars, mvars, tvars, rvars, ovars, evars, hvars>>

-----------------------------------------------------------------------------
(* Integers as sets of bit positions *)

\* x << k
Shl(x, k) == {i + k : i \in x}

\* x >> k
Shr(x, k) == {i - k : i \in {j \in x : j >= k}}

\* x & y
BitAnd(x, y) == x \cap y

\* x | y
BitOr(x, y) == x \cup y

\* the integer 2^n - 1 (0xF is LowBits(4))
LowBits(n) == 0 .. (n - 1)

\* 2^n as an integer
RECURSIVE Pow2(_)
Pow2(n) == IF n = 0 THEN 1 ELSE 2 * Pow2(n - 1)

\* the integer a bit set stands for (small values only)
RECURSIVE BitsToInt(_)
BitsToInt(x) ==
    IF x = {} THEN 0
    ELSE LET b == CHOOSE i \in x : TRUE IN Pow2(b) + BitsToInt(x \ {b})

\* the bit set of a non-negative integer
RECURSIVE IntToBits(_)
IntToBits(n) ==
    IF n = 0 THEN {}
    ELSE (IF n % 2 = 1 THEN {0} ELSE {}) \cup Shl(IntToBits(n \div 2), 1)

-----------------------------------------------------------------------------
(* c_vmfs.FS3_AddrType *)

FS3_AddrType_INVALID          == {}
FS3_AddrType_FILE_BLOCK       == {0}
FS3_AddrType_SMALL_FILE_BLOCK == {0}
FS3_AddrType_SUB_BLOCK        == {1}
FS3_AddrType_POINTER_BLOCK    == {0, 1}
FS3_AddrType_FILE_DESCRIPTOR  == {2}
FS3_AddrType_POINTER2_BLOCK   == {0, 2}
FS3_AddrType_JOURNAL_BLOCK    == {1, 2}
FS3_AddrType_LARGE_FILE_BLOCK == {0, 1, 2}

-----------------------------------------------------------------------------
(* address.py *)

\* address & 0b111
address_type(address) == BitAnd(address, LowBits(3))

\* FileBlockAddr (VMFS5 FB)
FileBlockAddr_cow(value) == BitAnd(Shr(value, 4), LowBits(1))
FileBlockAddr_tbz(value) == BitAnd(Shr(value, 5), LowBits(1))
FileBlockAddr_parse(address) == BitAnd(Shr(address, 6), LowBits(26))
FileBlockAddr_make(block, cow, tbz) ==
    BitOr(BitOr(FS3_AddrType_FILE_BLOCK, Shl(BitAnd(cow, LowBits(1)), 4)),
          BitOr(Shl(BitAnd(tbz, LowBits(1)), 5), Shl(BitAnd(block, LowBits(26)), 6)))

\* SmallFileBlockAddr (VMFS6 SFB)
SmallFileBlockAddr_cow(value) == BitAnd(Shr(value, 5), LowBits(1))
SmallFileBlockAddr_tbz(value) == BitAnd(Shr(value, 7), LowBits(8))
\* (a parse that reads the resource one bit too low)
SmallFileBlockAddr_parse_lowshift(address) ==
    <<BitAnd(Shr(address, 15), LowBits(31)), BitAnd(Shr(address, 50), LowBits(13))>>
SmallFileBlockAddr_parse(address) ==
    <<BitAnd(Shr(address, 15), LowBits(31)), BitAnd(Shr(address, 51), LowBits(13))>>
SmallFileBlockAddr_make(cluster, resource, cow, tbz) ==
    BitOr(BitOr(FS3_AddrType_SMALL_FILE_BLOCK, Shl(BitAnd(cow, LowBits(1)), 5)),
          BitOr(Shl(BitAnd(tbz, LowBits(8)), 7),
                BitOr(Shl(BitAnd(cluster, LowBits(31)), 15),
                      Shl(BitAnd(resource, LowBits(13)), 51))))

\* SubBlockAddr (VMFS5 SB); 0b11000 is {3, 4}
SubBlockAddr_cow(value) == BitAnd(Shr(value, 5), LowBits(1))
SubBlockAddr_parse(address, dense) ==
    LET cluster  == BitAnd(Shr(address, 6), LowBits(22))
        resource == BitAnd(Shr(address, 28), LowBits(4))
    IN  <<cluster,
          IF dense THEN BitOr(resource, Shl(BitAnd(address, {3, 4}), 1)) ELSE resource>>
SubBlockAddr_make(cluster, resource, cow) ==
    BitOr(BitOr(FS3_AddrType_SUB_BLOCK, Shl(BitAnd(cow, LowBits(1)), 5)),
          BitOr(Shl(BitAnd(cluster, LowBits(22)), 6), Shl(BitAnd(resource, LowBits(4)), 28)))

\* SubBlockAddr64 (VMFS6 SB)
SubBlockAddr64_cow(value) == BitAnd(Shr(value, 5), LowBits(1))
SubBlockAddr64_parse(address) ==
    <<BitAnd(Shr(address, 6), LowBits(36)), BitAnd(Shr(address, 56), LowBits(8))>>
SubBlockAddr64_make(cluster, resource, cow) ==
    BitOr(BitOr(FS3_AddrType_SUB_BLOCK, Shl(BitAnd(cow, LowBits(1)), 5)),
          BitOr(Shl(BitAnd(cluster, LowBits(36)), 6), Shl(BitAnd(resource, LowBits(8)), 56)))

\* PointerBlockAddr (VMFS5 PB); PointerBlock2Addr inherits all but __type__
PointerBlockAddr_cow(value) == BitAnd(Shr(value, 5), LowBits(1))
PointerBlockAddr_parse(address) ==
    <<BitAnd(Shr(address, 6), LowBits(22)), BitAnd(Shr(address, 28), LowBits(4))>>
PointerBlockAddr_make_cls(type, cluster, resource, cow) ==
    BitOr(BitOr(type, Shl(BitAnd(cow, LowBits(1)), 5)),
          BitOr(Shl(BitAnd(cluster, LowBits(22)), 6), Shl(BitAnd(resource, LowBits(4)), 28)))
PointerBlockAddr_make(cluster, resource, cow) ==
    PointerBlockAddr_make_cls(FS3_AddrType_POINTER_BLOCK, cluster, resource, cow)
PointerBlock2Addr_make(cluster, resource, cow) ==
    PointerBlockAddr_make_cls(FS3_AddrType_POINTER2_BLOCK, cluster, resource, cow)

\* PointerBlockAddr64 (VMFS6 PB); PointerBlock2Addr64 inherits all but __type__
PointerBlockAddr64_cow(value) == BitAnd(Shr(value, 5), LowBits(1))
PointerBlockAddr64_parse(address) ==
    <<BitAnd(Shr(address, 6), LowBits(36)), BitAnd(Shr(address, 56), LowBits(8))>>
PointerBlockAddr64_make_cls(type, cluster, resource, cow) ==
    BitOr(BitOr(type, Shl(BitAnd(cow, LowBits(1)), 5)),
          BitOr(Shl(BitAnd(cluster, LowBits(36)), 6), Shl(BitAnd(resource, LowBits(8)), 56)))
PointerBlockAddr64_make(cluster, resource, cow) ==
    PointerBlockAddr64_make_cls(FS3_AddrType_POINTER_BLOCK, cluster, resource, cow)
PointerBlock2Addr64_make(cluster, resource, cow) ==
    PointerBlockAddr64_make_cls(FS3_AddrType_POINTER2_BLOCK, cluster, resource, cow)

\* FileDescriptorAddr
FileDescriptorAddr_parse(address) ==
    <<BitAnd(Shr(address, 6), LowBits(16)), BitAnd(Shr(address, 22), LowBits(10))>>
FileDescriptorAddr_make(cluster, resource) ==
    BitOr(FS3_AddrType_FILE_DESCRIPTOR,
          BitOr(Shl(BitAnd(cluster, LowBits(16)), 6), Shl(BitAnd(resource, LowBits(10)), 22)))

\* JournalBlockAddr
JournalBlockAddr_parse(address) ==
    <<BitAnd(Shr(address, 3), LowBits(13)), BitAnd(Shr(address, 26), LowBits(6))>>
JournalBlockAddr_make(cluster, resource) ==
    BitOr(FS3_AddrType_JOURNAL_BLOCK,
          BitOr(Shl(BitAnd(cluster, LowBits(13)), 3), Shl(BitAnd(resource, LowBits(6)), 26)))

\* LargeFileBlockAddr (VMFS6 LFB)
LargeFileBlockAddr_cow(value) == BitAnd(Shr(value, 5), LowBits(1))
LargeFileBlockAddr_tbz(value) == BitAnd(Shr(value, 7), LowBits(8))
LargeFileBlockAddr_parse(address) == BitAnd(Shr(address, 15), LowBits(31))
LargeFileBlockAddr_make(block, cow, tbz) ==
    BitOr(BitOr(FS3_AddrType_LARGE_FILE_BLOCK, Shl(BitAnd(cow, LowBits(1)), 5)),
          BitOr(Shl(BitAnd(tbz, LowBits(8)), 7), Shl(BitAnd(block, LowBits(31)), 15)))

-----------------------------------------------------------------------------
(* The address codec as a state machine: make, then parse and the accessors *)

AddrKinds ==
    {"FileBlockAddr", "SmallFileBlockAddr", "SubBlockAddr", "SubBlockAddr64",
     "PointerBlockAddr", "PointerBlockAddr64", "PointerBlock2Addr", "PointerBlock2Addr64",
     "FileDescriptorAddr", "JournalBlockAddr", "LargeFileBlockAddr"}

\* The kinds whose parse returns a block number, not a (cluster, resource) pair
BlockKinds == {"FileBlockAddr", "LargeFileBlockAddr"}

\* The kinds that have a cow accessor, and those that have a tbz accessor
CowKinds == AddrKinds \ {"FileDescriptorAddr", "JournalBlockAddr"}
TbzKinds == {"FileBlockAddr", "SmallFileBlockAddr", "LargeFileBlockAddr"}

\* cls.__type__
KindTag(kind) ==
    CASE kind = "FileBlockAddr"       -> FS3_AddrType_FILE_BLOCK
      [] kind = "SmallFileBlockAddr"  -> FS3_AddrType_SMALL_FILE_BLOCK
      [] kind = "SubBlockAddr"        -> FS3_AddrType_SUB_BLOCK
      [] kind = "SubBlockAddr64"      -> FS3_AddrType_SUB_BLOCK
      [] kind = "PointerBlockAddr"    -> FS3_AddrType_POINTER_BLOCK
      [] kind = "PointerBlockAddr64"  -> FS3_AddrType_POINTER_BLOCK
      [] kind = "PointerBlock2Addr"   -> FS3_AddrType_POINTER2_BLOCK
      [] kind = "PointerBlock2Addr64" -> FS3_AddrType_POINTER2_BLOCK
      [] kind = "FileDescriptorAddr"  -> FS3_AddrType_FILE_DESCRIPTOR
      [] kind = "JournalBlockAddr"    -> FS3_AddrType_JOURNAL_BLOCK
      [] kind = "LargeFileBlockAddr"  -> FS3_AddrType_LARGE_FILE_BLOCK

\* The widths, in bits, of the fields of each kind's struct (the block number
\* of a block kind is its "cluster"; a field the kind lacks has width 0)
KindWidths(kind) ==
    CASE kind = "FileBlockAddr"       -> [cluster |-> 26, resource |-> 0,  cow |-> 1, tbz |-> 1]
      [] kind = "SmallFileBlockAddr"  -> [cluster |-> 31, resource |-> 13, cow |-> 1, tbz |-> 8]
      [] kind = "SubBlockAddr"        -> [cluster |-> 22, resource |-> 4,  cow |-> 1, tbz |-> 0]
      [] kind = "SubBlockAddr64"      -> [cluster |-> 36, resource |-> 8,  cow |-> 1, tbz |-> 0]
      [] kind = "PointerBlockAddr"    -> [cluster |-> 22, resource |-> 4,  cow |-> 1, tbz |-> 0]
      [] kind = "PointerBlockAddr64"  -> [cluster |-> 36, resource |-> 8,  cow |-> 1, tbz |-> 0]
      [] kind = "PointerBlock2Addr"   -> [cluster |-> 22, resource |-> 4,  cow |-> 1, tbz |-> 0]
      [] kind = "PointerBlock2Addr64" -> [cluster |-> 36, resource |-> 8,  cow |-> 1, tbz |-> 0]
      [] kind = "FileDescriptorAddr"  -> [cluster |-> 16, resource |-> 10, cow |-> 0, tbz |-> 0]
      [] kind = "JournalBlockAddr"    -> [cluster |-> 13, resource |-> 6,  cow |-> 0, tbz |-> 0]
      [] kind = "LargeFileBlockAddr"  -> [cluster |-> 31, resource |-> 0,  cow |-> 1, tbz |-> 8]

\* cls.make(...) with the arguments the class's make takes
KindMake(kind, in) ==
    CASE kind = "FileBlockAddr"       -> FileBlockAddr_make(in.cluster, in.cow, in.tbz)
      [] kind = "SmallFileBlockAddr"  -> SmallFileBlockAddr_make(in.cluster, in.resource, in.cow, in.tbz)
      [] kind = "SubBlockAddr"        -> SubBlockAddr_make(in.cluster, in.resource, in.cow)
      [] kind = "SubBlockAddr64"      -> SubBlockAddr64_make(in.cluster, in.resource, in.cow)
      [] kind = "PointerBlockAddr"    -> PointerBlockAddr_make(in.cluster, in.resource, in.cow)
      [] kind = "PointerBlockAddr64"  -> PointerBlockAddr64_make(in.cluster, in.resource, in.cow)
      [] kind = "PointerBlock2Addr"   -> PointerBlock2Addr_make(in.cluster, in.resource, in.cow)
      [] kind = "PointerBlock2Addr64" -> PointerBlock2Addr64_make(in.cluster, in.resource, in.cow)
      [] kind = "FileDescriptorAddr"  -> FileDescriptorAddr_make(in.cluster, in.resource)
      [] kind = "JournalBlockAddr"    -> JournalBlockAddr_make(in.cluster, in.resource)
      [] kind = "LargeFileBlockAddr"  -> LargeFileBlockAddr_make(in.cluster, in.cow, in.tbz)

\* cls.parse(address): <<block>> or <<cluster, resource>>
KindParse(kind, address) ==
    CASE kind = "FileBlockAddr"       -> <<FileBlockAddr_parse(address)>>
      [] kind = "SmallFileBlockAddr"  -> SmallFileBlockAddr_parse(address)
      [] kind = "SubBlockAddr"        -> SubBlockAddr_parse(address, FALSE)
      [] kind = "SubBlockAddr64"      -> SubBlockAddr64_parse(address)
      [] kind = "PointerBlockAddr"    -> PointerBlockAddr_parse(address)
      [] kind = "PointerBlockAddr64"  -> PointerBlockAddr64_parse(address)
      [] kind = "PointerBlock2Addr"   -> PointerBlockAddr_parse(address)
      [] kind = "PointerBlock2Addr64" -> PointerBlockAddr64_parse(address)
      [] kind = "FileDescriptorAddr"  -> FileDescriptorAddr_parse(address)
      [] kind = "JournalBlockAddr"    -> JournalBlockAddr_parse(address)
      [] kind = "LargeFileBlockAddr"  -> <<LargeFileBlockAddr_parse(address)>>

\* cls(value).cow, for the kinds that have the accessor
KindCow(kind, value) ==
    CASE kind = "FileBlockAddr"       -> FileBlockAddr_cow(value)
      [] kind = "SmallFileBlockAddr"  -> SmallFileBlockAddr_cow(value)
      [] kind = "SubBlockAddr"        -> SubBlockAddr_cow(value)
      [] kind = "SubBlockAddr64"      -> SubBlockAddr64_cow(value)
      [] kind = "PointerBlockAddr"    -> PointerBlockAddr_cow(value)
      [] kind = "PointerBlockAddr64"  -> PointerBlockAddr64_cow(value)
      [] kind = "PointerBlock2Addr"   -> PointerBlockAddr_cow(value)
      [] kind = "PointerBlock2Addr64" -> PointerBlockAddr64_cow(value)
      [] kind = "LargeFileBlockAddr"  -> LargeFileBlockAddr_cow(value)
      [] OTHER                        -> {}

\* cls(value).tbz, for the kinds that have the accessor
KindTbz(kind, value) ==
    CASE kind = "FileBlockAddr"       -> FileBlockAddr_tbz(value)
      [] kind = "SmallFileBlockAddr"  -> SmallFileBlockAddr_tbz(value)
      [] kind = "LargeFileBlockAddr"  -> LargeFileBlockAddr_tbz(value)
      [] OTHER                        -> {}

\* Argument values tried for a field of w bits: 0, 1, the top bit, all ones,
\* a mixed value, and 2^w, which does not fit the field
FieldSamples(w) ==
    IF w = 0 THEN {{}}
    ELSE {{}, {0}, {w - 1}, LowBits(w), {0, w - 1}, {w}}

FitsField(v, w) == v \subseteq LowBits(w)

FitsKind(kind, in) ==
    /\ FitsField(in.cluster, KindWidths(kind).cluster)
    /\ FitsField(in.resource, KindWidths(kind).resource)
    /\ FitsField(in.cow, KindWidths(kind).cow)
    /\ FitsField(in.tbz, KindWidths(kind).tbz)

AddrIdle ==
    /\ a_kind = "none"
    /\ a_in = [cluster |-> {}, resource |-> {}, cow |-> {}, tbz |-> {}]
    /\ a_addr = {}
    /\ a_out = [parsed |-> <<>>, cow |-> {}, tbz |-> {}, type |-> {}]
    /\ a_pc = "idle"

AddrInit ==
    /\ a_kind \in AddrKinds
    /\ a_in \in [cluster : FieldSamples(KindWidths(a_kind).cluster),
                 resource : FieldSamples(KindWidths(a_kind).resource),
                 cow : FieldSamples(KindWidths(a_kind).cow),
                 tbz : FieldSamples(KindWidths(a_kind).tbz)]
    /\ a_addr = {}
    /\ a_out = [parsed |-> <<>>, cow |-> {}, tbz |-> {}, type |-> {}]
    /\ a_pc = "input"

\* address = cls.make(cluster, resource, cow, tbz)
AddrMake ==
    /\ a_pc = "input"
    /\ a_addr' = KindMake(a_kind, a_in)
    /\ a_pc' = "made"
    /\ UNCHANGED <<a_kind, a_in, a_out>>
    /\ UNCHANGED OtherThanAddr

\* cls.parse(address), cls(address).cow, cls(address).tbz, address_type(address)
AddrParse ==
    /\ a_pc = "made"
    /\ a_out' = [parsed |-> KindParse(a_kind, a_addr),
                 cow    |-> KindCow(a_kind, a_addr),
                 tbz    |-> KindTbz(a_kind, a_addr),
                 type   |-> address_type(a_addr)]
    /\ a_pc' = "parsed"
    /\ UNCHANGED <<a_kind, a_in, a_addr>>
    /\ UNCHANGED OtherThanAddr

AddrNext == AddrMake \/ AddrParse

\* C1: for every address kind and every argument that fits the kind's field
\* widths, parse(make(...)) returns the values given to make, the cow and tbz
\* accessors return the flags given, and address_type(make(...)) is the kind's tag.
C1_RoundTrip ==
    (a_pc = "parsed" /\ FitsKind(a_kind, a_in)) =>
        /\ a_out.parsed = (IF a_kind \in BlockKinds
                           THEN <<a_in.cluster>>
                           ELSE <<a_in.cluster, a_in.resource>>)
        /\ (a_kind \in CowKinds => a_out.cow = a_in.cow)
        /\ (a_kind \in TbzKinds => a_out.tbz = a_in.tbz)
        /\ a_out.type = KindTag(a_kind)

\* A 64-bit SFB address with every field at its maximum, flags set, round-tripped
C1_Witness ==
    /\ a_pc = "parsed"
    /\ a_kind = "SmallFileBlockAddr"
    /\ a_in = [cluster |-> LowBits(31), resource |-> LowBits(13), cow |-> {0}, tbz |-> LowBits(8)]
    /\ a_out.parsed = <<LowBits(31), LowBits(13)>>

-----------------------------------------------------------------------------
(* lvm.py: Volume and VolumeStream *)

\* Bounds of the LVM inputs
MaxPE == 2          \* firstPE and lastPE of a volume descriptor are in 0 .. MaxPE
MaxLength == 2      \* the length of a physical extent is in 1 .. MaxLength
MaxSize == 3        \* volMeta.logicalSize is MaxSize - 1 or MaxSize
DeviceSize == 8     \* the number of bytes a device holds

\* The devices that carry a descriptor of the volume
DeviceIds == {"A", "B"}

\* vol_desc.volumeID of the volume on every device, and the id of another volume
VolumeID == "vol"
OtherVolumeID == "other"

\* The byte device.fh holds at a physical offset (every byte names its place)
DevByte(dev, p) == (IF dev = "A" THEN 0 ELSE 100) + p

Front(s) == SubSeq(s, 1, Len(s) - 1)
Last(s) == s[Len(s)]

\* list.sort(key=...) and sorted(..., key=itemgetter(0)): a stable sort of
\* <<key, item>> pairs by key
RECURSIVE InsertByKey(_, _)
InsertByKey(s, x) ==
    IF s = <<>> THEN <<x>>
    ELSE IF x[1] < Last(s)[1] THEN Append(InsertByKey(Front(s), x), Last(s))
    ELSE Append(s, x)

RECURSIVE StableSort(_)
StableSort(s) ==
    IF s = <<>> THEN <<>> ELSE InsertByKey(StableSort(Front(s)), Last(s))

\* Volume.__init__: self.devices.sort(key=lambda d: descriptor_map[d.uuid].firstPE)
SortDevices(devices, desc) ==
    LET keyed == [i \in 1 .. Len(devices) |-> <<desc[devices[i]].firstPE, devices[i]>>]
        sorted == StableSort(keyed)
    IN  [i \in 1 .. Len(devices) |-> sorted[i][2]]

\* Volume.size: volMeta.logicalSize of devZero's descriptor
VolumeSize == l_desc[l_devices[1]].logicalSize

\* Volume.is_valid, the loop over self.devices from index i with current_pe
RECURSIVE ContinuousPEs(_, _, _, _)
ContinuousPEs(devices, desc, i, current_pe) ==
    IF i > Len(devices) THEN TRUE
    ELSE IF desc[devices[i]].firstPE # current_pe THEN FALSE
    ELSE ContinuousPEs(devices, desc, i + 1, desc[devices[i]].lastPE + 1)

\* Volume.is_valid without the comparison of numDevs with len(self.devices)
is_valid_any_numDevs(devices, desc) ==
    IF devices = <<>> THEN FALSE
    ELSE IF desc[devices[1]].firstPE # 0 THEN FALSE
    ELSE ContinuousPEs(devices, desc, 1, 0)

\* Volume.is_valid
is_valid(devices, desc) ==
    IF devices = <<>> THEN FALSE
    ELSE IF desc[devices[1]].firstPE # 0 THEN FALSE
    ELSE IF desc[devices[1]].numDevs # Len(devices) THEN FALSE
    ELSE ContinuousPEs(devices, desc, 1, 0)

\* Volume._iter_pe._iter_pe_raw for one device: the used extents of the volume
RECURSIVE DevicePEs(_, _, _)
DevicePEs(dev, desc, entries) ==
    IF entries = <<>> THEN <<>>
    ELSE LET pe == Head(entries)
             rest == DevicePEs(dev, desc, Tail(entries))
         IN  IF ~pe.used THEN rest
             ELSE IF pe.volumeID # desc[dev].volumeID THEN rest
             ELSE <<[lOffset |-> pe.lOffset, pOffset |-> pe.pOffset,
                     length |-> pe.length, device |-> dev]>> \o rest

\* Volume._iter_pe._iter_pe_raw: the devices in order
RECURSIVE RawPEs(_, _, _)
RawPEs(devices, desc, pes) ==
    IF devices = <<>> THEN <<>>
    ELSE DevicePEs(Head(devices), desc, pes[Head(devices)]) \o RawPEs(Tail(devices), desc, pes)

\* Volume._iter_pe: sorted(_iter_pe_raw(), key=itemgetter(0))
iter_pe(devices, desc, pes) ==
    LET raw == RawPEs(devices, desc, pes)
        sorted == StableSort([i \in 1 .. Len(raw) |-> <<raw[i].lOffset, raw[i]>>])
    IN  [i \in 1 .. Len(raw) |-> sorted[i][2]]

\* The extent begins where the current run ends, on whatever device
ExtendsRun_any_device(run, pe) ==
    run.pOffset + run.length = pe.pOffset

\* Volume.dataruns: is the extent physically adjacent to the current run?
ExtendsRun(run, pe) ==
    run.pOffset + run.length = pe.pOffset /\ run.device = pe.device

\* Volume.dataruns, the loop over the extents: run is <<>> (run_logical_offset
\* is None) or <<the current run>>
RECURSIVE DatarunsLoop(_, _, _, _)
DatarunsLoop(extents, runs, run, expected_offset) ==
    IF extents = <<>>
    THEN [raised |-> "", runs |-> runs \o run]
    ELSE LET pe == Head(extents) IN
         IF pe.lOffset # expected_offset
         THEN [raised |-> "ValueError", runs |-> <<>>]
         ELSE IF run = <<>>
         THEN DatarunsLoop(Tail(extents), runs, <<pe>>, expected_offset + pe.length)
         ELSE IF ExtendsRun(run[1], pe)
         THEN DatarunsLoop(Tail(extents), runs,
                           <<[run[1] EXCEPT !.length = @ + pe.length]>>,
                           expected_offset + pe.length)
         ELSE DatarunsLoop(Tail(extents), runs \o run, <<pe>>, expected_offset + pe.length)

\* Volume.dataruns without the check for holes: every extent becomes a run
dataruns_unchecked(devices, desc, pes) ==
    [raised |-> "", runs |-> iter_pe(devices, desc, pes)]

\* Volume.dataruns
dataruns(devices, desc, pes) == DatarunsLoop(iter_pe(devices, desc, pes), <<>>, <<>>, 0)

\* VolumeStream.__init__: self._lookup
Lookup(runs) == SelectSeq([i \in 1 .. Len(runs) |-> runs[i].lOffset], LAMBDA o : o # 0)

\* bisect.bisect_right(a, x): the number of elements of the sorted list a that are <= x
\* (as an index into a 0-based list)
bisect_right(a, x) == Cardinality({i \in 1 .. Len(a) : a[i] <= x})

Min(x, y) == IF x < y THEN x ELSE y

NoCall == [pc |-> "none"]

LvmIdle ==
    /\ l_desc = <<>>
    /\ l_pes = <<>>
    /\ l_devices = <<>>
    /\ l_dr = NoCall
    /\ l_open = NoCall
    /\ l_stream = NoCall
    /\ l_rd = NoCall

\* A volume descriptor as Device.__init__ reads it
Descriptor(firstPE, lastPE, numDevs, size) ==
    [firstPE |-> firstPE, lastPE |-> lastPE, numDevs |-> numDevs,
     logicalSize |-> size, volumeID |-> VolumeID]

\* Descriptors of a volume of two devices, A with PE 0 and B with PE 1; numDevs
\* says one or two devices
SpanDescriptors ==
    {[dev \in DeviceIds |-> Descriptor(IF dev = "A" THEN 0 ELSE 1, IF dev = "A" THEN 0 ELSE 1,
                                       numDevs, size)] :
     numDevs \in 1 .. 2, size \in (MaxSize - 1) .. MaxSize}

\* Descriptors with any PE range on either device
AnyDescriptors ==
    {[dev \in DeviceIds |-> Descriptor(IF dev = "A" THEN fa ELSE fb, IF dev = "A" THEN la ELSE lb,
                                       numDevs, MaxSize - 1)] :
     fa \in 0 .. MaxPE, la \in 0 .. MaxPE, fb \in 0 .. MaxPE, lb \in 0 .. MaxPE,
     numDevs \in 1 .. 2}

\* A PE table entry of the volume, in use
UsedEntries(lengths) ==
    [used : {TRUE}, volumeID : {VolumeID},
     lOffset : 0 .. MaxLength, pOffset : {0, MaxLength}, length : lengths]

\* A PE table entry: of the volume and in use, free, or of another volume
AnyEntries(lengths) ==
    UsedEntries(lengths)
    \cup {[e EXCEPT !.used = FALSE] : e \in UsedEntries(lengths)}
    \cup {[e EXCEPT !.volumeID = OtherVolumeID] : e \in UsedEntries(lengths)}

\* PE tables: two entries on A, one on B
AnyPETables ==
    {[dev \in DeviceIds |-> IF dev = "A" THEN <<a1, a2>> ELSE <<b1>>] :
     a1 \in UsedEntries(1 .. MaxLength), a2 \in AnyEntries(1 .. MaxLength),
     b1 \in {e \in UsedEntries({1}) : e.pOffset = MaxLength}}

\* PE tables whose extents cover the volume without a hole
Entry(lOffset, pOffset, length) ==
    [used |-> TRUE, volumeID |-> VolumeID, lOffset |-> lOffset, pOffset |-> pOffset,
     length |-> length]

CoveringPETables ==
    {[dev \in DeviceIds |-> IF dev = "A" THEN <<Entry(0, 0, 1), Entry(1, MaxLength, 1)>>
                                         ELSE <<Entry(2, MaxLength, 1)>>]}

\* Volume.__init__ on devices whose descriptors and PE tables were read
LvmInitOf(descriptors, tables, given_devices) ==
    /\ l_desc \in descriptors
    /\ l_pes \in tables
    /\ \E given \in given_devices : l_devices = SortDevices(given, l_desc)
    /\ l_dr = NoCall
    /\ l_open = NoCall
    /\ l_stream = NoCall
    /\ l_rd = NoCall

LvmInit == LvmInitOf(SpanDescriptors, AnyPETables, {<<"A">>, <<"A", "B">>, <<"B", "A">>})

LvmValidInit ==
    LvmInitOf(AnyDescriptors, CoveringPETables, {<<"A">>, <<"B">>, <<"A", "B">>, <<"B", "A">>})

\* Volume.dataruns()
CallDataruns ==
    /\ l_devices # <<>>
    /\ l_dr.pc = "none"
    /\ LET dr == dataruns(l_devices, l_desc, l_pes) IN
       l_dr' = IF dr.raised # ""
               THEN [pc |-> "raised", error |-> dr.raised]
               ELSE [pc |-> "returned", runs |-> dr.runs]
    /\ UNCHANGED <<l_desc, l_pes, l_devices, l_open, l_stream, l_rd>>
    /\ UNCHANGED OtherThanLvm

\* Volume.open(): is_valid(), then VolumeStream(self), whose __init__ calls dataruns()
VolumeOpen ==
    /\ l_devices # <<>>
    /\ l_open.pc = "none"
    /\ IF ~is_valid(l_devices, l_desc)
       THEN /\ l_open' = [pc |-> "raised", error |-> "VolumeNotAvailableError"]
            /\ UNCHANGED l_stream
       ELSE LET dr == dataruns(l_devices, l_desc, l_pes) IN
            IF dr.raised # ""
            THEN /\ l_open' = [pc |-> "raised", error |-> dr.raised]
                 /\ UNCHANGED l_stream
            ELSE /\ l_open' = [pc |-> "returned"]
                 /\ l_stream' = [pc |-> "open", runs |-> dr.runs, lookup |-> Lookup(dr.runs),
                                 size |-> VolumeSize]
    /\ UNCHANGED <<l_desc, l_pes, l_devices, l_dr, l_rd>>
    /\ UNCHANGED OtherThanLvm

\* device.fh.seek(p); device.fh.read(n): n bytes, or all bytes up to the end of
\* the device when n is negative
DevRead(dev, p, n) ==
    LET count == IF n >= 0 THEN n ELSE (IF p < DeviceSize THEN DeviceSize - p ELSE 0)
    IN  [i \in 1 .. count |-> DevByte(dev, p + i - 1)]

\* VolumeStream._read(offset, length), up to the loop
ReadStart ==
    /\ l_stream.pc = "open"
    /\ l_rd.pc = "none"
    /\ \E offset \in 0 .. l_stream.size :
       \E length \in 0 .. (l_stream.size - offset) :
          l_rd' = [pc |-> "loop", offset0 |-> offset, length0 |-> length,
                   offset |-> offset, length |-> length,
                   run_idx |-> bisect_right(l_stream.lookup, offset), result |-> <<>>]
    /\ UNCHANGED <<l_desc, l_pes, l_devices, l_dr, l_open, l_stream>>
    /\ UNCHANGED OtherThanLvm

\* One iteration of the while loop of VolumeStream._read (run_idx is 0-based)
ReadStep ==
    /\ l_rd.pc = "loop"
    /\ l_rd.length > 0
    /\ IF l_rd.run_idx >= Len(l_stream.runs)
       THEN l_rd' = [pc |-> "raised", error |-> "IndexError",
                     offset0 |-> l_rd.offset0, length0 |-> l_rd.length0]
       ELSE LET run == l_stream.runs[l_rd.run_idx + 1]
                offset_in_run == l_rd.offset - run.lOffset
                remaining_in_run == run.length - offset_in_run
                read_length == Min(l_rd.length, remaining_in_run)
            IN  l_rd' = [l_rd EXCEPT
                            !.result = @ \o DevRead(run.device, run.pOffset + offset_in_run, read_length),
                            !.length = @ - read_length,
                            !.offset = @ + read_length,
                            !.run_idx = @ + 1]
    /\ UNCHANGED <<l_desc, l_pes, l_devices, l_dr, l_open, l_stream>>
    /\ UNCHANGED OtherThanLvm

\* VolumeStream._read: the loop ends, b"".join(result) is returned
ReadReturn ==
    /\ l_rd.pc = "loop"
    /\ l_rd.length <= 0
    /\ l_rd' = [l_rd EXCEPT !.pc = "returned"]
    /\ UNCHANGED <<l_desc, l_pes, l_devices, l_dr, l_open, l_stream>>
    /\ UNCHANGED OtherThanLvm

LvmNext == CallDataruns \/ VolumeOpen \/ ReadStart \/ ReadStep \/ ReadReturn

\* The end of a run or extent in the logical address space
RunEnd(run) == run.lOffset + run.length

RECURSIVE SumLengths(_)
SumLengths(runs) == IF runs = <<>> THEN 0 ELSE Head(runs).length + SumLengths(Tail(runs))

RunsSorted(runs) ==
    \A i, j \in 1 .. Len(runs) : i < j => runs[i].lOffset <= runs[j].lOffset

RunsContiguous(runs) ==
    \A i \in 1 .. Len(runs) : runs[i].lOffset = (IF i = 1 THEN 0 ELSE RunEnd(runs[i - 1]))

\* The used extents of the volume on its devices, as <<device, index>>
OwnedExtents ==
    {x \in DeviceIds \X (1 .. 2) :
        /\ \E i \in 1 .. Len(l_devices) : l_devices[i] = x[1]
        /\ x[2] <= Len(l_pes[x[1]])
        /\ l_pes[x[1]][x[2]].used
        /\ l_pes[x[1]][x[2]].volumeID = l_desc[x[1]].volumeID}

\* The extents can be put in a chain that starts at offset o, each beginning
\* where the one before it ended
RECURSIVE ChainFrom(_, _)
ChainFrom(S, o) ==
    \/ S = {}
    \/ \E x \in S : /\ l_pes[x[1]][x[2]].lOffset = o
                    /\ ChainFrom(S \ {x}, o + l_pes[x[1]][x[2]].length)

HasGap == ~ChainFrom(OwnedExtents, 0)

\* The bytes of the volume at logical offsets o .. o + n - 1, each taken from
\* the run that contains it
ExpectedBytes(runs, o, n) ==
    [i \in 1 .. n |->
        LET at == o + i - 1
            r == CHOOSE r \in 1 .. Len(runs) : runs[r].lOffset <= at /\ at < RunEnd(runs[r])
        IN  DevByte(runs[r].device, runs[r].pOffset + (at - runs[r].lOffset))]

-----------------------------------------------------------------------------
(* The claims about lvm.py *)

\* C2: whenever Volume.dataruns() returns a run list, the runs are sorted by
\* logical offset, the first starts at 0, each starts where the previous one
\* ends, and the run lengths add up to Volume.size.
C2_DatarunsCoverSize ==
    l_dr.pc = "returned" =>
        /\ RunsSorted(l_dr.runs)
        /\ RunsContiguous(l_dr.runs)
        /\ SumLengths(l_dr.runs) = VolumeSize

\* What holds of C2: the returned runs are sorted and contiguous from 0
\* (their total length is whatever the extents add up to)
C2_DatarunsContiguous ==
    l_dr.pc = "returned" => RunsSorted(l_dr.runs) /\ RunsContiguous(l_dr.runs)

\* A valid one-device volume whose only run is shorter than volMeta.logicalSize
C2_Witness ==
    /\ l_dr.pc = "returned"
    /\ is_valid(l_devices, l_desc)
    /\ Len(l_dr.runs) = 1
    /\ SumLengths(l_dr.runs) < VolumeSize

\* C3: is_valid() is true exactly when the first device has firstPE = 0,
\* numDevs equals the number of devices and every later device's firstPE is the
\* previous device's lastPE + 1; when it is false, open() raises
\* VolumeNotAvailableError and creates no stream.
C3_IsValid ==
    /\ is_valid(l_devices, l_desc) <=>
          /\ l_desc[l_devices[1]].firstPE = 0
          /\ l_desc[l_devices[1]].numDevs = Len(l_devices)
          /\ \A i \in 2 .. Len(l_devices) :
                l_desc[l_devices[i]].firstPE = l_desc[l_devices[i - 1]].lastPE + 1
    /\ (l_open.pc # "none" /\ ~is_valid(l_devices, l_desc)) =>
          /\ l_open = [pc |-> "raised", error |-> "VolumeNotAvailableError"]
          /\ l_stream = NoCall

\* open() refused a volume of two devices with devZero and the right numDevs,
\* whose second device does not continue the PE range
C3_Witness ==
    /\ l_open = [pc |-> "raised", error |-> "VolumeNotAvailableError"]
    /\ Len(l_devices) = 2
    /\ l_desc[l_devices[1]].firstPE = 0
    /\ l_desc[l_devices[1]].numDevs = 2
    /\ l_desc[l_devices[2]].firstPE # l_desc[l_devices[1]].lastPE + 1

\* C4 as stated: open() on a volume whose used extents leave a gap in logical
\* coverage fails with VolumeNotAvailableError, also when is_valid() holds.
C4_GapNotAvailable ==
    (l_open.pc # "none" /\ HasGap) =>
        l_open = [pc |-> "raised", error |-> "VolumeNotAvailableError"]

\* C4: open() on a volume whose used extents leave a gap in logical coverage
\* fails and creates no stream: with VolumeNotAvailableError when is_valid() is
\* false, with the ValueError of dataruns() when is_valid() is true.
C4_GapFails ==
    (l_open.pc # "none" /\ HasGap) =>
        /\ l_open = [pc |-> "raised",
                     error |-> IF is_valid(l_devices, l_desc)
                               THEN "ValueError" ELSE "VolumeNotAvailableError"]
        /\ l_stream = NoCall

\* open() of a valid two-device volume whose three extents leave a hole
C4_Witness ==
    /\ l_open = [pc |-> "raised", error |-> "ValueError"]
    /\ is_valid(l_devices, l_desc)
    /\ Len(l_devices) = 2
    /\ Cardinality(OwnedExtents) = 3
    /\ HasGap

\* C5: for a run list contiguous from 0 and offset + length <= volume size,
\* _read selects by bisect_right the run that contains offset and returns
\* length bytes, the byte at logical offset o being the byte of its run's device
\* at physical_offset + (o - logical_offset), across run boundaries.
C5_ReadBytes ==
    /\ (l_rd.pc = "loop" /\ l_rd.length0 > 0 /\ l_rd.result = <<>>) =>
          /\ l_rd.run_idx < Len(l_stream.runs)
          /\ l_stream.runs[l_rd.run_idx + 1].lOffset <= l_rd.offset
          /\ l_rd.offset < RunEnd(l_stream.runs[l_rd.run_idx + 1])
    /\ l_rd.pc # "raised"
    /\ l_rd.pc = "returned" =>
          l_rd.result = ExpectedBytes(l_stream.runs, l_rd.offset0, l_rd.length0)

\* What holds of C5: a read inside the runs returns the bytes of the runs, and
\* only a read of
\* at least one byte that reaches past the last run raises
C5_ReadCovered ==
    /\ (l_rd.pc = "loop" /\ l_rd.result = <<>> /\ l_rd.offset < SumLengths(l_stream.runs)) =>
          /\ l_rd.run_idx < Len(l_stream.runs)
          /\ l_stream.runs[l_rd.run_idx + 1].lOffset <= l_rd.offset
          /\ l_rd.offset < RunEnd(l_stream.runs[l_rd.run_idx + 1])
    /\ l_rd.pc = "raised" =>
          l_rd.length0 > 0 /\ l_rd.offset0 + l_rd.length0 > SumLengths(l_stream.runs)
    /\ l_rd.pc = "returned" =>
          /\ l_rd.length0 > 0 => l_rd.offset0 + l_rd.length0 <= SumLengths(l_stream.runs)
          /\ l_rd.result = ExpectedBytes(l_stream.runs, l_rd.offset0, l_rd.length0)

\* A read inside volume.size that crossed a run boundary and then ran out of runs
C5_Witness ==
    /\ l_rd.pc = "raised"
    /\ l_rd.error = "IndexError"
    /\ Len(l_stream.runs) = 2
    /\ l_rd.offset0 = 0
    /\ l_rd.offset0 + l_rd.length0 <= l_stream.size


\* The elements of a set of numbers in increasing order
SeqOfStarts(S) ==
    [k \in 1 .. Cardinality(S) |-> CHOOSE i \in S : Cardinality({j \in S : j < i}) = k - 1]

\* The extents dataruns() walks over, in the order of their logical offsets
Extents == iter_pe(l_devices, l_desc, l_pes)

\* Two consecutive extents on the same device, the later one beginning
\* physically where the earlier one ends
Adjacent(a, b) == a.device = b.device /\ a.pOffset + a.length = b.pOffset

\* The extents with which a run begins: the first one, and every one that is
\* not adjacent to the extent before it
RunStarts(extents) ==
    {i \in 1 .. Len(extents) : i = 1 \/ ~Adjacent(extents[i - 1], extents[i])}

\* The last extent of the run that begins with extent i
RunStop(extents, i) ==
    CHOOSE j \in i .. Len(extents) :
        /\ \A m \in (i + 1) .. j : m \notin RunStarts(extents)
        /\ j = Len(extents) \/ j + 1 \in RunStarts(extents)

\* C27: dataruns() merges consecutive extents (in the order of their logical
\* offsets) into one run exactly when they are on the same device and the
\* later extent begins physically where the run ends: every run is the union
\* of the consecutive extents from one that is not adjacent to its predecessor
\* up to the next such one, and no two neighbouring runs are on the same
\* device and physically adjacent.
C27_RunsMerged ==
    l_dr.pc = "returned" =>
        /\ Len(l_dr.runs) = Cardinality(RunStarts(Extents))
        /\ \A k \in 1 .. Len(l_dr.runs) :
              LET i == SeqOfStarts(RunStarts(Extents))[k]
                  j == RunStop(Extents, i)
              IN /\ l_dr.runs[k].lOffset = Extents[i].lOffset
                 /\ l_dr.runs[k].pOffset = Extents[i].pOffset
                 /\ l_dr.runs[k].device = Extents[i].device
                 /\ l_dr.runs[k].length = SumLengths(SubSeq(Extents, i, j))
                 /\ \A m \in i .. j : Extents[m].device = Extents[i].device
                 /\ l_dr.runs[k].pOffset + l_dr.runs[k].length
                       = Extents[j].pOffset + Extents[j].length
        /\ \A k \in 1 .. (Len(l_dr.runs) - 1) : ~Adjacent(l_dr.runs[k], l_dr.runs[k + 1])

\* Two extents of one device, the second beginning physically where the first
\* ends, merged into one run
C27_Witness ==
    /\ l_dr.pc = "returned"
    /\ Len(Extents) = 2
    /\ Adjacent(Extents[1], Extents[2])
    /\ Len(l_dr.runs) = 1
    /\ l_dr.runs[1].length = Extents[1].length + Extents[2].length
-----------------------------------------------------------------------------
(* descriptor.py, resource.py: file descriptors, resources, block streams *)

\* Bound of the file inputs
MaxBlocks == 3          \* the number of blocks of a file that is not resident

\* The geometry of the filesystem, small so that reads cross block boundaries
FileBlockShift == 1     \* vmfs._file_block_size_shift and metadata.blockOffsetShift
SubBlockShift == 1      \* vmfs._sub_block_size_shift
PtrBlockNumShift == 1   \* vmfs._ptr_block_num_shift: a pointer block holds 2 addresses
SfbToLfbShift == 1      \* vmfs.descriptor.sfbToLfbShift
MdAlignment == 8        \* vmfs.descriptor.mdAlignment
FdDataOffset == 2       \* vmfs._fd_data_offset
FdDataSize == 4         \* vmfs._fd_data_size
FdSize == FdDataOffset + FdDataSize     \* vmfs._fd_size
FdVolumeOffset == 500   \* lock_info.addr.offset of the file descriptor

\* metadata.blockSize of the file
block_size == Pow2(FileBlockShift)

\* FS3_ResFileMetadata of the resource files
ResMeta ==
    [clusterGroupOffset |-> 16, clusterGroupSize |-> 4096,
     clustersPerGroup |-> 2, resourcesPerCluster |-> 2]

\* metadata.resourceSize: a sub-block, or a pointer block of 4- or 8-byte addresses
ResourceSize(ver, type) ==
    IF type = FS3_AddrType_SUB_BLOCK THEN Pow2(SubBlockShift)
    ELSE Pow2(PtrBlockNumShift) * (IF ver = 5 THEN 4 ELSE 8)

\* RESOURCE_TYPE_MAP_VMFS5 / RESOURCE_TYPE_MAP_VMFS6: the resource types of a version
ResourceTypes(ver) ==
    IF ver = 5
    THEN {FS3_AddrType_FILE_BLOCK, FS3_AddrType_SUB_BLOCK, FS3_AddrType_POINTER_BLOCK,
          FS3_AddrType_FILE_DESCRIPTOR, FS3_AddrType_POINTER2_BLOCK}
    ELSE {FS3_AddrType_SMALL_FILE_BLOCK, FS3_AddrType_SUB_BLOCK, FS3_AddrType_POINTER_BLOCK,
          FS3_AddrType_FILE_DESCRIPTOR, FS3_AddrType_POINTER2_BLOCK,
          FS3_AddrType_JOURNAL_BLOCK, FS3_AddrType_LARGE_FILE_BLOCK}

\* The byte the volume holds at an offset: never zero, and it names its place
VolByte(offset) == offset + 1

\* fh.seek(offset); fh.read(n) on the volume
VolRead(offset, n) == [i \in 1 .. n |-> VolByte(offset + i - 1)]

\* ResourceFile.__init__: self._cluster_header_size
cluster_header_size(ver) == IF ver = 5 THEN 1024 ELSE 2 * MdAlignment

\* A (cluster, resource) pair of bit sets as integers
Ints(p) == <<BitsToInt(p[1]), BitsToInt(p[2])>>

\* util.bsf: the number of zero bits below the lowest 1 bit, 0 for 0
RECURSIVE bsf(_)
bsf(value) == IF value = 0 \/ value % 2 = 1 THEN 0 ELSE 1 + bsf(value \div 2)

\* x & y on integers that are not negative
IntAnd(x, y) == BitsToInt(BitAnd(IntToBits(x), IntToBits(y)))

\* LargeFileBlockResourceVMFS6.parse_address: the block shifted and masked by
\* resourcesPerCluster
ShiftMaskRpc(block) ==
    <<block \div Pow2(bsf(ResMeta.resourcesPerCluster)),
      IntAnd(block, ResMeta.resourcesPerCluster - 1)>>

\* divmod(block, self.metadata.resourcesPerCluster)
DivModRpc(block) ==
    <<block \div ResMeta.resourcesPerCluster, block % ResMeta.resourcesPerCluster>>

\* <Resource>.parse_address of the resource class of an address type
parse_address_as(ver, type, address) ==
    IF type = FS3_AddrType_SUB_BLOCK
    THEN Ints(IF ver = 5 THEN SubBlockAddr_parse(address, FALSE)
              ELSE SubBlockAddr64_parse(address))
    ELSE IF type \in {FS3_AddrType_POINTER_BLOCK, FS3_AddrType_POINTER2_BLOCK}
    THEN Ints(IF ver = 5 THEN PointerBlockAddr_parse(address)
              ELSE PointerBlockAddr64_parse(address))
    ELSE IF type = FS3_AddrType_FILE_DESCRIPTOR THEN Ints(FileDescriptorAddr_parse(address))
    ELSE IF type = FS3_AddrType_JOURNAL_BLOCK THEN Ints(JournalBlockAddr_parse(address))
    ELSE IF type = FS3_AddrType_LARGE_FILE_BLOCK
    THEN ShiftMaskRpc(BitsToInt(LargeFileBlockAddr_parse(address)))
    ELSE IF ver = 5 THEN DivModRpc(BitsToInt(FileBlockAddr_parse(address)))
    ELSE Ints(SmallFileBlockAddr_parse(address))

\* <Resource>.parse_address of the resource the address belongs to
parse_address(ver, address) == parse_address_as(ver, address_type(address), address)

\* ResourceFile._resource_offset
resource_offset(ver, type, cluster, resource) ==
    LET group == cluster \div ResMeta.clustersPerGroup
        cluster_in_group == cluster % ResMeta.clustersPerGroup
        cluster_size == ResMeta.resourcesPerCluster * ResourceSize(ver, type)
        cluster_data_offset == ResMeta.clustersPerGroup * cluster_header_size(ver)
    IN  ResMeta.clusterGroupOffset
        + (group * ResMeta.clusterGroupSize)
        + (cluster_in_group * cluster_size)
        + cluster_data_offset
        + (resource * ResourceSize(ver, type))

\* ResourceFile._resource_offset_from_address
resource_offset_of(ver, type, cr) == resource_offset(ver, type, cr[1], cr[2])

resource_offset_from_address(ver, address) ==
    resource_offset_of(ver, address_type(address), parse_address(ver, address))

\* self.fd._resolve_offset(offset_in_file)[0] of a resource's system file: the
\* system file of each type lies in one piece on the volume
SysFileOffset(type, offset_in_file) == (100000 * (BitsToInt(type) + 1)) + offset_in_file

\* SmallFileBlockResourceVMFS6.resolve_address
sfb_resolve_address(cr) ==
    ((cr[1] * ResMeta.resourcesPerCluster) + cr[2]) * Pow2(FileBlockShift)

\* LargeFileBlockResourceVMFS6.resolve_address
lfb_resolve_address(cr) ==
    ((cr[1] * Pow2(bsf(ResMeta.resourcesPerCluster))) + cr[2])
    * Pow2(FileBlockShift + SfbToLfbShift)

\* <Resource>.resolve_address of the resource class of an address type
resolve_address_as(ver, type, address) ==
    IF type = FS3_AddrType_FILE_BLOCK /\ ver = 5
    THEN BitsToInt(FileBlockAddr_parse(address)) * block_size
    ELSE IF type = FS3_AddrType_SMALL_FILE_BLOCK
    THEN sfb_resolve_address(parse_address_as(ver, type, address))
    ELSE IF type = FS3_AddrType_LARGE_FILE_BLOCK
    THEN lfb_resolve_address(parse_address_as(ver, type, address))
    ELSE SysFileOffset(type, resource_offset_of(ver, type, parse_address_as(ver, type, address)))

\* <Resource>.resolve_address: the volume offset an address names
resolve_address(ver, address) == resolve_address_as(ver, address_type(address), address)

\* The addresses a pointer block at a volume offset holds (an unwritten one
\* holds null addresses)
PointersAt(offset) ==
    IF offset \in DOMAIN f_pb THEN f_pb[offset]
    ELSE [i \in 1 .. Pow2(PtrBlockNumShift) |-> {}]

\* ResourceFile.read of the resource of an address type: through the volume
\* when there is one, through the resource file otherwise. The buffer is given
\* as the addresses it holds.
resource_read_as(type, address) ==
    IF type \notin f_vmfs.res
    THEN [raised |-> "AttributeError", data |-> <<>>]
    ELSE IF f_vmfs.fh
    THEN [raised |-> "", data |-> PointersAt(resolve_address_as(f_vmfs.ver, type, address))]
    ELSE [raised |-> "",
          data |-> PointersAt(SysFileOffset(type,
                       resource_offset_of(f_vmfs.ver, type,
                                          parse_address_as(f_vmfs.ver, type, address))))]

\* ResourceManager.read: self.get(address_type(address)).read(address)
resources_read(address) == resource_read_as(address_type(address), address)

\* self.blocks[i]
BlocksAt(i) ==
    IF i < Len(f_fd.blocks) THEN [raised |-> "", block |-> f_fd.blocks[i + 1]]
    ELSE [raised |-> "IndexError", block |-> {}]

\* _get_uint32_index / _get_uint64_index on the buffer resources.read returned
get_uint_index(pb_buf, index) ==
    IF pb_buf.raised # "" THEN [raised |-> pb_buf.raised, block |-> {}]
    ELSE [raised |-> "", block |-> pb_buf.data[index + 1]]

\* One level of indirection: the address at an index of the pointer block that
\* the address found so far names
PointerIn(found, index) ==
    IF found.raised # "" THEN found
    ELSE get_uint_index(resources_read(found.block), index)

\* FileDescriptor5._offset_to_block_address, FileDescriptor6._offset_to_block_address
block_address_of(block_num, n) ==
    IF f_fd.zla \in {"FILE_BLOCK", "SUB_BLOCK"} THEN BlocksAt(block_num)
    ELSE IF f_fd.zla \in {"POINTER_BLOCK", "POINTER2_BLOCK"}
    THEN PointerIn(BlocksAt(block_num \div n), block_num % n)
    ELSE IF f_fd.zla = "POINTER_BLOCK_DOUBLE"
    THEN PointerIn(PointerIn(BlocksAt(block_num \div (n * n)), (block_num \div n) % n),
                   block_num % n)
    ELSE [raised |-> "TypeError", block |-> {}]

offset_to_block_address(offset) ==
    block_address_of(offset \div Pow2(FileBlockShift), Pow2(PtrBlockNumShift))

\* FileDescriptor._resolve_resident_offset (the ZLA is resident at every call)
resolve_resident_offset(offset) ==
    IF offset > FdDataSize THEN [raised |-> "ValueError", offset |-> 0, tbz |-> 0]
    ELSE [raised |-> "", offset |-> FdVolumeOffset + FdDataOffset + offset, tbz |-> 0]

\* FileDescriptor5._resolve_offset: tbz = (block & 0x20) >> 5
Tbz5(block) == BitsToInt(Shr(BitAnd(block, {5}), 5))

\* FileDescriptor6._resolve_offset: the TBZ bitmap taken from the low byte
Tbz6_low_byte(block) == BitsToInt(BitAnd(block, LowBits(8)))

\* FileDescriptor6._resolve_offset: tbz = (block >> 7) & 0xFF
Tbz6(block) == BitsToInt(BitAnd(Shr(block, 7), LowBits(8)))

\* vmfs._sfb_size: the small file blocks of one cluster
SfbSize == ResMeta.resourcesPerCluster

\* FileDescriptor5._resolve_offset, from the block address on
resolve_block5(offset, b, type) ==
    IF b.raised # "" THEN [raised |-> b.raised, offset |-> 0, tbz |-> 0]
    ELSE IF type \in f_vmfs.res
    THEN [raised |-> "",
          offset |-> resolve_address_as(f_vmfs.ver, type, b.block) + (offset % block_size),
          tbz |-> IF type = FS3_AddrType_FILE_BLOCK THEN Tbz5(b.block) ELSE 0]
    ELSE IF type = FS3_AddrType_FILE_BLOCK
    THEN [raised |-> "",
          offset |-> (BitsToInt(FileBlockAddr_parse(b.block)) * Pow2(FileBlockShift))
                     + (offset % block_size),
          tbz |-> Tbz5(b.block)]
    ELSE [raised |-> "TypeError", offset |-> 0, tbz |-> 0]

\* FileDescriptor5._resolve_offset, from the block address on
resolve_found5(offset, b) == resolve_block5(offset, b, address_type(b.block))

\* FileDescriptor5._resolve_offset
FileDescriptor5_resolve_offset(offset) ==
    IF f_fd.zla = "FILE_DESCRIPTOR_RESIDENT" THEN resolve_resident_offset(offset)
    ELSE resolve_found5(offset, offset_to_block_address(offset))

\* FileDescriptor6._resolve_offset: no resource yet, the offset of a small file block
sfb_offset_no_resource(cr) ==
    ((BitsToInt(cr[1]) * SfbSize) + BitsToInt(cr[2])) * Pow2(FileBlockShift)

\* FileDescriptor6._resolve_offset: offset_in_block for the address type
offset_in_block6(offset, type) ==
    IF type = FS3_AddrType_LARGE_FILE_BLOCK THEN offset % Pow2(SfbToLfbShift + FileBlockShift)
    ELSE IF type = FS3_AddrType_SMALL_FILE_BLOCK THEN offset % Pow2(FileBlockShift)
    ELSE offset % Pow2(SubBlockShift)

\* FileDescriptor6._resolve_offset, from the block address on
resolve_block6(offset, b, type) ==
    IF b.raised # "" THEN [raised |-> b.raised, offset |-> 0, tbz |-> 0]
    ELSE IF type \notin f_vmfs.res /\ type # FS3_AddrType_SMALL_FILE_BLOCK
    THEN [raised |-> "TypeError", offset |-> 0, tbz |-> 0]
    ELSE IF type \notin {FS3_AddrType_LARGE_FILE_BLOCK, FS3_AddrType_SMALL_FILE_BLOCK,
                         FS3_AddrType_SUB_BLOCK}
    THEN [raised |-> "TypeError", offset |-> 0, tbz |-> 0]
    ELSE [raised |-> "",
          offset |-> (IF type \in f_vmfs.res
                      THEN resolve_address_as(f_vmfs.ver, type, b.block)
                      ELSE sfb_offset_no_resource(SmallFileBlockAddr_parse(b.block)))
                     + offset_in_block6(offset, type),
          tbz |-> IF type \in {FS3_AddrType_SMALL_FILE_BLOCK, FS3_AddrType_LARGE_FILE_BLOCK}
                  THEN Tbz6(b.block) ELSE 0]

\* FileDescriptor6._resolve_offset, from the block address on
resolve_found6(offset, b) == resolve_block6(offset, b, address_type(b.block))

\* FileDescriptor6._resolve_offset
FileDescriptor6_resolve_offset(offset) ==
    IF f_fd.zla = "FILE_DESCRIPTOR_RESIDENT" THEN resolve_resident_offset(offset)
    ELSE resolve_found6(offset, offset_to_block_address(offset))

\* self.descriptor._resolve_offset of the descriptor class of the version
resolve_offset(offset) ==
    IF f_vmfs.ver = 5 THEN FileDescriptor5_resolve_offset(offset)
    ELSE FileDescriptor6_resolve_offset(offset)

\* min(length, block_size) in the place of the distance to the block's end
read_length_unaligned(offset, length) == Min(length, block_size)

\* BlockStream._read: the distance to the end of the block, whatever is left to read
read_length_to_block_end(offset, length) == block_size - (offset % block_size)

\* BlockStream._read: min(length, block_size - offset % block_size)
read_length(offset, length) == Min(length, block_size - (offset % block_size))

\* Python's s[a:b] on a sequence (0-based, clipped to the sequence)
Slice(s, a, b) == SubSeq(s, a + 1, Min(b, Len(s)))

\* self.raw: the file descriptor's bytes, which lie at its volume offset
Raw == VolRead(FdVolumeOffset, FdSize)

\* ResourceFile.read: the bytes of the resource, from the volume when there is
\* one and from the resource file otherwise
ResourceFile_read(type, address) ==
    VolRead(IF f_vmfs.fh THEN resolve_address_as(f_vmfs.ver, type, address)
            ELSE SysFileOffset(type, resource_offset_of(f_vmfs.ver, type,
                                         parse_address_as(f_vmfs.ver, type, address))),
            ResourceSize(f_vmfs.ver, type))

Max(x, y) == IF x > y THEN x ELSE y

\* FileDescriptor._read_offset_sadpanda, the resident branch
sadpanda_resident(start, length) ==
    [raised |-> "", data |-> Slice(Raw, start, Max(start + length, FdSize))]

\* _read_offset_sadpanda reading through any open resource, sub-block or not
sadpanda_block_any_type(b, type, offset_in_block, length) ==
    IF b.raised # "" THEN [raised |-> b.raised, data |-> <<>>]
    ELSE IF type \in f_vmfs.res
    THEN [raised |-> "",
          data |-> Slice(VolRead(SysFileOffset(type, 0), ResourceSize(f_vmfs.ver, type)),
                         offset_in_block, offset_in_block + length)]
    ELSE [raised |-> "VolumeNotAvailableError", data |-> <<>>]

\* FileDescriptor._read_offset_sadpanda, from the block address on
sadpanda_block(b, type, offset_in_block, length) ==
    IF b.raised # "" THEN [raised |-> b.raised, data |-> <<>>]
    ELSE IF type = FS3_AddrType_SUB_BLOCK /\ type \in f_vmfs.res
    THEN [raised |-> "",
          data |-> Slice(ResourceFile_read(type, b.block), offset_in_block,
                         offset_in_block + length)]
    ELSE [raised |-> "VolumeNotAvailableError", data |-> <<>>]

\* FileDescriptor._read_offset_sadpanda, from the block address on
sadpanda_found(b, offset, length) ==
    sadpanda_block(b, address_type(b.block),
                   IF f_vmfs.ver = 5 THEN offset % block_size ELSE offset % Pow2(SubBlockShift),
                   length)

\* FileDescriptor._read_offset_sadpanda
read_offset_sadpanda(offset, length) ==
    IF f_fd.zla = "FILE_DESCRIPTOR_RESIDENT"
    THEN IF offset > FdDataSize THEN [raised |-> "ValueError", data |-> <<>>]
         ELSE sadpanda_resident((FdSize - FdDataSize) + offset, length)
    ELSE sadpanda_found(offset_to_block_address(offset), offset, length)

FileIdle ==
    /\ f_vmfs = [ver |-> 0, fh |-> FALSE, res |-> {}]
    /\ f_fd = [zla |-> "INVALID", blocks |-> <<>>, size |-> 0]
    /\ f_pb = <<>>
    /\ f_rd = NoCall

\* The address of the i-th block of a file: a file block with no flag set (the
\* blocks of a file do not follow each other on the volume)
LeafPlain(ver, i) ==
    IF ver = 5 THEN FileBlockAddr_make(IntToBits(16 + (2 * i)), {}, {})
    ELSE SmallFileBlockAddr_make(IntToBits(8 + i), {}, {}, {})

\* The kinds of address one block of the file is given
LeafKinds(ver) ==
    {"plain", "tbz", "cow", "sb", "sb_cow", "null", "pb"}
    \cup (IF ver = 5 THEN {} ELSE {"tbz_high", "lfb", "lfb_tbz"})

LeafOfKind(ver, kind, i) ==
    IF kind = "null" THEN {}
    ELSE IF ver = 5
    THEN CASE kind = "tbz" -> FileBlockAddr_make(IntToBits(16 + (2 * i)), {}, {0})
           [] kind = "cow" -> FileBlockAddr_make(IntToBits(16 + (2 * i)), {0}, {})
           [] kind = "sb" -> SubBlockAddr_make(IntToBits(3), IntToBits(i), {})
           [] kind = "sb_cow" -> SubBlockAddr_make(IntToBits(3), IntToBits(i), {0})
           [] kind = "pb" -> PointerBlockAddr_make(IntToBits(5), {}, {})
           [] OTHER -> LeafPlain(ver, i)
    ELSE CASE kind = "tbz" ->
                SmallFileBlockAddr_make(IntToBits(8 + i), {}, {}, {0})
           [] kind = "tbz_high" ->
                SmallFileBlockAddr_make(IntToBits(8 + i), {}, {}, {7})
           [] kind = "cow" ->
                SmallFileBlockAddr_make(IntToBits(8 + i), {}, {0}, {})
           [] kind = "sb" -> SubBlockAddr64_make(IntToBits(3), IntToBits(i), {})
           [] kind = "sb_cow" -> SubBlockAddr64_make(IntToBits(3), IntToBits(i), {0})
           [] kind = "pb" -> PointerBlockAddr64_make(IntToBits(5), {}, {})
           [] kind = "lfb" -> LargeFileBlockAddr_make(IntToBits(32 + i), {}, {})
           [] kind = "lfb_tbz" -> LargeFileBlockAddr_make(IntToBits(32 + i), {}, {3})
           [] OTHER -> LeafPlain(ver, i)

\* The block addresses of a file whose block k is of the given kind
Leaf(ver, k, kind, i) ==
    IF i >= MaxBlocks THEN {}
    ELSE IF i = k THEN LeafOfKind(ver, kind, i)
    ELSE LeafPlain(ver, i)

\* The pointer blocks of the file: PB j holds the addresses of the blocks
\* n*j .. n*j + n - 1, PB2 q the addresses of the PBs n*q .. n*q + n - 1
PtrsPerBlock == Pow2(PtrBlockNumShift)
NumPB == (MaxBlocks + PtrsPerBlock - 1) \div PtrsPerBlock
NumPB2 == (NumPB + PtrsPerBlock - 1) \div PtrsPerBlock

PBAddr(ver, j) ==
    IF ver = 5 THEN PointerBlockAddr_make(IntToBits(j), {}, {})
    ELSE PointerBlockAddr64_make(IntToBits(j), {}, {})

PB2Addr(ver, q) ==
    IF ver = 5 THEN PointerBlock2Addr_make(IntToBits(q), {}, {})
    ELSE PointerBlock2Addr64_make(IntToBits(q), {}, {})

\* self.blocks for a ZLA
BlocksOf(ver, zla, k, kind) ==
    CASE zla = "FILE_BLOCK" -> [i \in 1 .. MaxBlocks |-> Leaf(ver, k, kind, i - 1)]
      [] zla = "POINTER_BLOCK" -> [j \in 1 .. NumPB |-> PBAddr(ver, j - 1)]
      [] zla = "POINTER_BLOCK_DOUBLE" -> [q \in 1 .. NumPB2 |-> PB2Addr(ver, q - 1)]
      [] OTHER -> <<>>

\* The volume offsets of the pointer blocks
PBOffset(ver, j) == resolve_address(ver, PBAddr(ver, j))
PB2Offset(ver, q) == resolve_address(ver, PB2Addr(ver, q))

\* The addresses PB j and PB2 q hold
PBData(ver, k, kind, j) ==
    [t \in 1 .. PtrsPerBlock |-> Leaf(ver, k, kind, (PtrsPerBlock * j) + t - 1)]

PB2Data(ver, q) ==
    [t \in 1 .. PtrsPerBlock |->
        IF (PtrsPerBlock * q) + t - 1 < NumPB
        THEN PBAddr(ver, (PtrsPerBlock * q) + t - 1) ELSE {}]

\* The pointer blocks on the volume for a ZLA
PointerBlocksIn(ver, k, kind, pbs, pb2s) ==
    [o \in {PBOffset(ver, j) : j \in pbs} \cup {PB2Offset(ver, q) : q \in pb2s} |->
        IF \E j \in pbs : PBOffset(ver, j) = o
        THEN PBData(ver, k, kind, CHOOSE j \in pbs : PBOffset(ver, j) = o)
        ELSE PB2Data(ver, CHOOSE q \in pb2s : PB2Offset(ver, q) = o)]

PointerBlocksOf(ver, zla, k, kind) ==
    PointerBlocksIn(ver, k, kind,
                    IF zla \in {"POINTER_BLOCK", "POINTER_BLOCK_DOUBLE"}
                    THEN 0 .. (NumPB - 1) ELSE {},
                    IF zla = "POINTER_BLOCK_DOUBLE" THEN 0 .. (NumPB2 - 1) ELSE {})

\* The filesystem: with a volume handle and all resources open, or none yet
\* (filesystem initialization); without one (system files only), with all
\* resource files or all but the sub-block file
VmfsOf(ver) ==
    {[ver |-> ver, fh |-> TRUE, res |-> ResourceTypes(ver)],
     [ver |-> ver, fh |-> TRUE, res |-> {}],
     [ver |-> ver, fh |-> FALSE, res |-> ResourceTypes(ver)],
     [ver |-> ver, fh |-> FALSE, res |-> ResourceTypes(ver) \ {FS3_AddrType_SUB_BLOCK}]}

\* A file descriptor read from the filesystem
FileInit ==
    \E ver \in {5, 6} :
       /\ f_vmfs \in VmfsOf(ver)
       /\ \/ \E zla \in {"FILE_BLOCK", "POINTER_BLOCK", "POINTER_BLOCK_DOUBLE"} :
             \E k \in 0 .. (MaxBlocks - 1) : \E kind \in LeafKinds(ver) :
                /\ f_fd = [zla |-> zla, blocks |-> BlocksOf(ver, zla, k, kind),
                           size |-> MaxBlocks * block_size]
                /\ f_pb = PointerBlocksOf(ver, zla, k, kind)
          \/ /\ f_fd = [zla |-> "FILE_DESCRIPTOR_RESIDENT", blocks |-> <<>>, size |-> FdDataSize]
             /\ f_pb = <<>>
          \/ /\ f_fd = [zla |-> "INVALID", blocks |-> <<>>, size |-> block_size]
             /\ f_pb = <<>>
       /\ f_rd = NoCall

\* FileDescriptor.open (of a file that is not an RDM file)
FileOpen ==
    /\ f_vmfs.ver # 0
    /\ f_rd.pc = "none"
    /\ f_rd' = [pc |-> "open",
                stream |-> IF f_vmfs.fh THEN "BlockStream" ELSE "BestEffortBlockStream"]
    /\ UNCHANGED <<f_vmfs, f_fd, f_pb>>
    /\ UNCHANGED OtherThanFile

\* The stream's _read(offset, length) for a range inside the file, up to the loop
FileReadStart ==
    /\ f_rd.pc = "open"
    /\ \E offset \in 0 .. (f_fd.size - 1) :
       \E length \in 1 .. (f_fd.size - offset) :
          f_rd' = [pc |-> "loop", stream |-> f_rd.stream,
                   offset0 |-> offset, length0 |-> length,
                   offset |-> offset, length |-> length, result |-> <<>>]
    /\ UNCHANGED <<f_vmfs, f_fd, f_pb>>
    /\ UNCHANGED OtherThanFile

\* b"\x00" * n
Zeros(n) == [i \in 1 .. n |-> 0]

\* The stream's _read ended by an exception
ReadRaised(error) ==
    [pc |-> "raised", stream |-> f_rd.stream, error |-> error,
     offset0 |-> f_rd.offset0, length0 |-> f_rd.length0, offset |-> f_rd.offset]

\* BlockStream._read, the loop body after _resolve_offset returned or raised
BlockStreamRead(r, n) ==
    IF r.raised # "" THEN ReadRaised(r.raised)
    ELSE [f_rd EXCEPT !.result = @ \o (IF r.tbz # 0 THEN Zeros(n) ELSE VolRead(r.offset, n)),
                      !.length = @ - n,
                      !.offset = @ + n]

\* BestEffortBlockStream._read, the loop body after _read_offset_sadpanda
\* returned or raised
BestEffortRead(read_buf, n) ==
    IF read_buf.raised # "" THEN ReadRaised(read_buf.raised)
    ELSE [f_rd EXCEPT !.result = @ \o read_buf.data,
                      !.length = @ - n,
                      !.offset = @ + n]

\* One iteration of the loop of BlockStream._read
BlockStreamStep ==
    /\ f_rd.pc = "loop"
    /\ f_rd.stream = "BlockStream"
    /\ f_rd.length > 0
    /\ f_rd' = BlockStreamRead(resolve_offset(f_rd.offset),
                               read_length(f_rd.offset, f_rd.length))
    /\ UNCHANGED <<f_vmfs, f_fd, f_pb>>
    /\ UNCHANGED OtherThanFile

\* One iteration of the loop of BestEffortBlockStream._read
BestEffortStep ==
    /\ f_rd.pc = "loop"
    /\ f_rd.stream = "BestEffortBlockStream"
    /\ f_rd.length > 0
    /\ f_rd' = BestEffortRead(read_offset_sadpanda(f_rd.offset, f_rd.length),
                              read_length(f_rd.offset, f_rd.length))
    /\ UNCHANGED <<f_vmfs, f_fd, f_pb>>
    /\ UNCHANGED OtherThanFile

\* The loop of either _read ends: b"".join(result) is returned
FileReadReturn ==
    /\ f_rd.pc = "loop"
    /\ f_rd.length <= 0
    /\ f_rd' = [f_rd EXCEPT !.pc = "returned"]
    /\ UNCHANGED <<f_vmfs, f_fd, f_pb>>
    /\ UNCHANGED OtherThanFile

FileNext == FileOpen \/ FileReadStart \/ BlockStreamStep \/ BestEffortStep \/ FileReadReturn

\* The start of the block-aligned span that holds file offset x in a read
\* that starts at offset o
SpanStart(o, x) == Max(o, x - (x % block_size))

\* The byte of the volume a resolved span gives at distance d from its start
VolumeByteOf(r, d) == VolByte(r.offset + d)

\* The byte BlockStream gives: zero for a span to be zeroed
SpanByteOf(r, d) == IF r.tbz # 0 THEN 0 ELSE VolByte(r.offset + d)

\* The block address has a TBZ value: bit 5 of a VMFS5 FB address, any of bits
\* 7..14 of a VMFS6 SFB or LFB address
HasTbz(ver, block) ==
    IF ver = 5 THEN address_type(block) = FS3_AddrType_FILE_BLOCK /\ 5 \in block
    ELSE /\ address_type(block) \in {FS3_AddrType_SMALL_FILE_BLOCK,
                                     FS3_AddrType_LARGE_FILE_BLOCK}
         /\ block \cap (7 .. 14) # {}

\* A resolved span and its block address agree on the TBZ value
TbzAgrees(r, b) == r.raised = "" => ((r.tbz # 0) <=> HasTbz(f_vmfs.ver, b.block))

\* A span that _read_offset_sadpanda can read: of a resident file, or of a
\* sub-block address with the sub-block resource open
Readable(b) ==
    \/ f_fd.zla = "FILE_DESCRIPTOR_RESIDENT"
    \/ /\ b.raised = ""
       /\ address_type(b.block) = FS3_AddrType_SUB_BLOCK
       /\ FS3_AddrType_SUB_BLOCK \in f_vmfs.res

\* What _read_offset_sadpanda raises for a span that is not readable
SadpandaError(b) == IF b.raised # "" THEN b.raised ELSE "VolumeNotAvailableError"

-----------------------------------------------------------------------------
(* The claims about the block streams *)

\* C6 as stated: for any range inside a file opened with a volume handle,
\* BlockStream._read returns the concatenation of the volume bytes at the
\* offsets _resolve_offset gives for each block-aligned span of the range.
C6_VolumeBytes ==
    (f_rd.pc = "returned" /\ f_rd.stream = "BlockStream") =>
        /\ Len(f_rd.result) = f_rd.length0
        /\ \A i \in 1 .. f_rd.length0 :
              f_rd.result[i] =
                  VolumeByteOf(resolve_offset(SpanStart(f_rd.offset0, f_rd.offset0 + i - 1)),
                               (f_rd.offset0 + i - 1)
                                   - SpanStart(f_rd.offset0, f_rd.offset0 + i - 1))

\* C6: for any range inside a file opened with a volume handle,
\* BlockStream._read returns, span by block-aligned span in increasing order,
\* the volume bytes at the offset _resolve_offset gives for the span when the
\* TBZ value it gives is 0 and zero bytes when it is not; when _resolve_offset
\* raises for a span, _read raises that error after the spans before it
\* resolved.
C6_ReadEquivalence ==
    /\ (f_rd.pc = "returned" /\ f_rd.stream = "BlockStream") =>
          /\ Len(f_rd.result) = f_rd.length0
          /\ \A i \in 1 .. f_rd.length0 :
                f_rd.result[i] =
                    SpanByteOf(resolve_offset(SpanStart(f_rd.offset0, f_rd.offset0 + i - 1)),
                               (f_rd.offset0 + i - 1)
                                   - SpanStart(f_rd.offset0, f_rd.offset0 + i - 1))
    /\ (f_rd.pc = "raised" /\ f_rd.stream = "BlockStream") =>
          /\ f_rd.offset = SpanStart(f_rd.offset0, f_rd.offset)
          /\ resolve_offset(f_rd.offset).raised = f_rd.error
          /\ \A x \in f_rd.offset0 .. (f_rd.offset - 1) :
                resolve_offset(SpanStart(f_rd.offset0, x)).raised = ""

\* The whole of a double-indirect file read, one block zeroed and the others
\* taken from the volume
C6_Witness ==
    /\ f_rd.pc = "returned"
    /\ f_rd.stream = "BlockStream"
    /\ f_fd.zla = "POINTER_BLOCK_DOUBLE"
    /\ f_rd.offset0 = 1
    /\ f_rd.length0 = f_fd.size - 1
    /\ \E i, j \in 1 .. Len(f_rd.result) : f_rd.result[i] = 0 /\ f_rd.result[j] # 0

\* C7: in BlockStream._read the bytes returned for a span whose block address
\* has a non-zero TBZ value (bit 5 of a VMFS5 FB address; any of bits 7..14 of
\* a VMFS6 SFB or LFB address) are all zero, whatever the volume holds; for
\* every other address kind the TBZ value is 0.
C7_TbzLaw ==
    (f_rd.pc # "none" /\ f_rd.stream = "BlockStream") =>
        /\ \A s \in 0 .. (f_fd.size - 1) :
              TbzAgrees(resolve_offset(s), offset_to_block_address(s))
        /\ f_rd.pc \in {"loop", "returned"} =>
              \A i \in 1 .. Len(f_rd.result) :
                 HasTbz(f_vmfs.ver,
                        offset_to_block_address(
                            SpanStart(f_rd.offset0, f_rd.offset0 + i - 1)).block)
                 => f_rd.result[i] = 0

\* A VMFS6 file read through a pointer block: the block whose SFB address has
\* bit 14 set came back as zeros, the other blocks with the volume's bytes
C7_Witness ==
    /\ f_rd.pc = "returned"
    /\ f_rd.stream = "BlockStream"
    /\ f_vmfs.ver = 6
    /\ f_fd.zla = "POINTER_BLOCK"
    /\ f_rd.length0 = f_fd.size
    /\ \E s \in 0 .. (f_fd.size - 1) : resolve_offset(s).tbz = 128
    /\ \E i, j \in 1 .. Len(f_rd.result) : f_rd.result[i] = 0 /\ f_rd.result[j] # 0

\* C10: without a volume handle, reading a span succeeds when the file is
\* resident or the span's block address is a sub-block address and the
\* sub-block resource is open, and raises VolumeNotAvailableError for every
\* span whose block address is of another kind.
C10_Jbosf ==
    (f_rd.pc # "none" /\ f_rd.stream = "BestEffortBlockStream") =>
        /\ f_rd.pc = "raised" =>
              /\ ~Readable(offset_to_block_address(f_rd.offset))
              /\ f_rd.error = SadpandaError(offset_to_block_address(f_rd.offset))
        /\ f_rd.pc \in {"loop", "returned"} =>
              \A x \in f_rd.offset0 .. (f_rd.offset - 1) :
                 Readable(offset_to_block_address(SpanStart(f_rd.offset0, x)))

\* Without a volume handle, a span with a sub-block address found through a
\* pointer block was read from the sub-block resource file
C10_Witness ==
    /\ f_rd.pc = "returned"
    /\ f_rd.stream = "BestEffortBlockStream"
    /\ f_fd.zla = "POINTER_BLOCK"
    /\ f_rd.length0 = block_size
    /\ Len(f_rd.result) = block_size
    /\ address_type(offset_to_block_address(f_rd.offset0).block) = FS3_AddrType_SUB_BLOCK


\* The byte of the file content at a file offset, as it can be had without a
\* volume handle: of the data region of the descriptor for a resident file,
\* of the sub-block of the offset otherwise
FileContentByte(x) ==
    IF f_fd.zla = "FILE_DESCRIPTOR_RESIDENT"
    THEN VolByte(FdVolumeOffset + (FdSize - FdDataSize) + x)
    ELSE ResourceFile_read(FS3_AddrType_SUB_BLOCK, offset_to_block_address(x).block)
             [(IF f_vmfs.ver = 5 THEN x % block_size ELSE x % Pow2(SubBlockShift)) + 1]

BestEffortReturned == f_rd.pc = "returned" /\ f_rd.stream = "BestEffortBlockStream"

\* C30 as stated: without a volume handle, BestEffortBlockStream._read(offset,
\* length) returns exactly length bytes, the bytes [offset, offset + length) of
\* the file content: for a resident file the bytes of the data region of the
\* descriptor from offset on, and for a range longer than one block the bytes
\* of each block once, in order.
C30_BestEffortBytes ==
    BestEffortReturned
        => /\ Len(f_rd.result) = f_rd.length0
           /\ \A i \in 1 .. f_rd.length0 : f_rd.result[i] = FileContentByte(f_rd.offset0 + i - 1)

\* C30, what the code does: for a file of sub-blocks the read returns the
\* bytes [offset, offset + length) of the content; for a resident file it
\* returns, for every span, the data region from the start of the span to its
\* end, so at least length bytes, which begin with the bytes from offset to
\* the end of the data region.
C30_BestEffortBytesToEnd ==
    BestEffortReturned
        => IF f_fd.zla = "FILE_DESCRIPTOR_RESIDENT"
           THEN /\ Len(f_rd.result) >= FdDataSize - f_rd.offset0
                /\ Len(f_rd.result) >= f_rd.length0
                /\ \A i \in 1 .. (FdDataSize - f_rd.offset0) :
                      f_rd.result[i] = FileContentByte(f_rd.offset0 + i - 1)
                /\ Len(f_rd.result) = f_rd.length0
                      <=> (f_rd.offset0 + f_rd.length0 = FdDataSize
                             /\ f_rd.length0 <= block_size - (f_rd.offset0 % block_size))
           ELSE /\ Len(f_rd.result) = f_rd.length0
                /\ \A i \in 1 .. f_rd.length0 :
                      f_rd.result[i] = FileContentByte(f_rd.offset0 + i - 1)

\* One byte asked of a resident file, the whole data region returned
C30_Witness ==
    /\ BestEffortReturned
    /\ f_fd.zla = "FILE_DESCRIPTOR_RESIDENT"
    /\ f_rd.offset0 = 0
    /\ f_rd.length0 = 1
    /\ Len(f_rd.result) = FdDataSize
-----------------------------------------------------------------------------
(* descriptor.py: directories *)

\* c_vmfs.py: the constants and struct sizes of directories
rootDirDescAddr == 4
FS6_DIR_HEADER_VERSION == 16056321
FS6_DIR_HEADER_DEBUG_VERSION == 16629761
FS6_DIR_HEADER_BLOCK_SIZE == 65536
FS6_DIR_HASH_MAX_ENTRIES == 16001
FS6_DIR_HASH_ROOT_RESERVED == 28
FS6_DIR_HASH_MAX_ROOT_ENTRIES == FS6_DIR_HASH_MAX_ENTRIES - FS6_DIR_HASH_ROOT_RESERVED
FS6_DirBlockType_DIRENT == 1
FS6_DirBlockType_LINK == 2
FS6_DirBlockType_ALLOCATION_MAP == 3
len_FS3_DirEntry == 140
len_FS6_DirEntry == 288
len_FS6_DirHeader == 1528
len_FS6_DirBlockHeader == 64
len_FS6_DirLinkGroup == 84

\* Bounds of the directories
MaxNames == 3           \* a directory file holds at most MaxNames entries besides . and ..
DirSlots == 2           \* totalSlots of a directory entry block
LinksPerGroup == 2      \* totalLinks of a link group

\* vmfs.md_alignment, the size of a block of a VMFS6 directory file
DirMdAlignment == 4096

\* The names a directory may hold, and the names get() is asked for ("d" is
\* in no directory)
DirNames == {"a", "b", "c", ".fbb.sf"}
AskedNames == DirNames \cup {".", "..", "d"}

\* dissect.util's lookup8_quads(key, 42) of the padded name: a 64-bit hash, of
\* which _dir_name_hash uses bits 16 .. 31 and the remainder modulo the size of
\* the hash table.  Being a hash it is not injective; the sample gives
\*   a, b, c   the same remainder modulo FS6_DIR_HASH_MAX_ENTRIES (5),
\*   a, c      the same bits 16 .. 31 as well (1), b other ones (2),
\*   all names different remainders modulo FS6_DIR_HASH_MAX_ROOT_ENTRIES.
lookup8_quads(name) ==
    CASE name = "a" -> 80010
      [] name = "c" -> 96011
      [] name = "b" -> 144014
      [] name = ".fbb.sf" -> 208022
      [] name = "d" -> 262155
      [] name = "." -> 327687
      [] name = ".." -> 393229

\* _SYSTEM_FILE_HASHES
SystemFileNames ==
    <<".fbb.sf", ".fdc.sf", ".pbc.sf", ".sbc.sf", ".vh.sf",
      ".pb2.sf", ".sdd.sf", ".jbc.sf", ".unmap.sf", ".dfd.sf">>
SYSTEM_FILE_HASHES ==
    [n \in {SystemFileNames[k] : k \in 1..Len(SystemFileNames)} |->
        LET k == CHOOSE k \in 1..Len(SystemFileNames) : SystemFileNames[k] = n
        IN <<15973 + k, 15973 + k>>]

\* A 64-bit value as four 16-bit words, the highest first; an integer below
\* 2^31 as such a value
Words64(x) == <<0, 0, x \div 65536, x % 65536>>

\* result % m of a 64-bit value, word by word
Mod64(result, m) ==
    ((((((result[1] % m) * 65536 + result[2]) % m) * 65536 + result[3]) % m) * 65536
        + result[4]) % m

\* The hashes of a 64-bit value modulo the size of the whole hash table,
\* whatever the directory
hashes_of_result_whole_table(result, in_root) ==
    <<result[3], Mod64(result, FS6_DIR_HASH_MAX_ENTRIES)>>

\* _dir_name_hash from the value of lookup8_quads on: (result >> 16) & 0xFFFF
\* and result modulo the size of the hash table of the directory
hashes_of_result(result, in_root) ==
    <<result[3], Mod64(result, IF in_root THEN FS6_DIR_HASH_MAX_ROOT_ENTRIES
                                          ELSE FS6_DIR_HASH_MAX_ENTRIES)>>

\* _dir_name_hash(name, in_root), lookup8_quads giving result for the name:
\* <<link_hash, hash_idx>>
dir_name_hash_of(name, in_root, result) ==
    IF in_root /\ name \in DOMAIN SYSTEM_FILE_HASHES
    THEN SYSTEM_FILE_HASHES[name]
    ELSE hashes_of_result(result, in_root)

\* _dir_name_hash(name, in_root): <<link_hash, hash_idx>>
dir_name_hash(name, in_root) == dir_name_hash_of(name, in_root, Words64(lookup8_quads(name)))

\* _dir_parse_location(pointer): <<type, block, slot>>
dir_parse_location(pointer) ==
    <<pointer % 4, (pointer \div 4) % 4194304, pointer \div 16777216>>

\* The offset of a block of a directory file
dir_block_offset(block) == FS6_DIR_HEADER_BLOCK_SIZE + (block * DirMdAlignment)

\* The offset of a directory entry: block offset, block header, slot offset
dirent_offset(block, slot) ==
    dir_block_offset(block) + len_FS6_DirBlockHeader + (slot * len_FS6_DirEntry)

\* The offset of a link group: block offset, block header, slot offset
link_group_offset(block, slot) ==
    dir_block_offset(block) + len_FS6_DirBlockHeader + (slot * len_FS6_DirLinkGroup)

\* The offset of an entry of the hash table, which follows the header
hash_entry_offset(key) == len_FS6_DirHeader + key * 4

\* --- The file of a directory, as ESXi lays it out -------------------------
\* The content of a directory is a sequence of [name, live]: the entries in
\* storage order, a deleted entry (live = FALSE) leaving its slot behind.

\* The address of the file descriptor of the i-th entry
FdAddrOf(i) == rootDirDescAddr + 64 * i

\* Blocks of a VMFS6 directory file: 0 is the allocation map, 1 the first
\* block of entries, 2 the block of link groups, 3 .. more blocks of entries
DirentBlockNum(k) == IF k = 0 THEN 1 ELSE k + 2
LinkBlockNum == DirentBlockNum(0) + 1
NumDirentBlocks == (MaxNames + DirSlots - 1) \div DirSlots

make_location(type, block, slot) == type + 4 * block + 16777216 * slot

DirentLocation(i) ==
    make_location(FS6_DirBlockType_DIRENT,
                  DirentBlockNum((i - 1) \div DirSlots), (i - 1) % DirSlots)

LiveEntries(ents) == {i \in 1..Len(ents) : ents[i].live}
LinkHashOf(ents, in_root, i) == dir_name_hash(ents[i].name, in_root)[1]
HashIdxOf(ents, in_root, i) == dir_name_hash(ents[i].name, in_root)[2]

\* The live entries whose names have the hash index idx, in storage order
Bucket(ents, in_root, idx) ==
    {i \in LiveEntries(ents) : HashIdxOf(ents, in_root, i) = idx}
SeqOfSet(S) ==
    [k \in 1..Cardinality(S) |-> CHOOSE i \in S : Cardinality({j \in S : j < i}) = k - 1]
UsedIdx(ents, in_root) == {HashIdxOf(ents, in_root, i) : i \in LiveEntries(ents)}
ChainedIdx(ents, in_root) ==
    {idx \in UsedIdx(ents, in_root) : Cardinality(Bucket(ents, in_root, idx)) > 1}

\* The slot of the first link group of a hash index, and the number of its groups
GroupBase(ents, in_root, idx) ==
    Cardinality({i \in LiveEntries(ents) : HashIdxOf(ents, in_root, i) < idx})
NumGroups(ents, in_root, idx) ==
    (Cardinality(Bucket(ents, in_root, idx)) + LinksPerGroup - 1) \div LinksPerGroup

\* The g-th link group of hash index idx, m being the entries of its bucket
LinkGroupOf(ents, in_root, idx, g, m) ==
    [hashIndex |-> idx,
     totalLinks |-> LinksPerGroup,
     freeLinks |-> LinksPerGroup - Min(LinksPerGroup, Len(m) - g * LinksPerGroup),
     links |-> [j \in 1..LinksPerGroup |->
                  IF g * LinksPerGroup + j <= Len(m)
                  THEN [location |-> DirentLocation(m[g * LinksPerGroup + j]),
                        hash |-> LinkHashOf(ents, in_root, m[g * LinksPerGroup + j])]
                  ELSE [location |-> 0, hash |-> 0]],
     nextGroup |-> IF (g + 1) * LinksPerGroup < Len(m)
                   THEN make_location(FS6_DirBlockType_LINK, LinkBlockNum,
                                      GroupBase(ents, in_root, idx) + g + 1)
                   ELSE 0]

GroupKeys(ents, in_root) ==
    {<<idx, g>> \in ChainedIdx(ents, in_root) \X (0..MaxNames) :
        g < NumGroups(ents, in_root, idx)}
GroupOffsetOf(ents, in_root, key) ==
    link_group_offset(LinkBlockNum, GroupBase(ents, in_root, key[1]) + key[2])
GroupAt(ents, in_root, key) ==
    LinkGroupOf(ents, in_root, key[1], key[2], SeqOfSet(Bucket(ents, in_root, key[1])))

\* offset -> the FS6_DirLinkGroup at that offset
LinkGroups(ents, in_root) ==
    [off \in {GroupOffsetOf(ents, in_root, key) : key \in GroupKeys(ents, in_root)} |->
        GroupAt(ents, in_root,
                CHOOSE key \in GroupKeys(ents, in_root) :
                    GroupOffsetOf(ents, in_root, key) = off)]

\* The entry of the hash table for idx: the entry itself, or its first link group
HashEntryOf(ents, in_root, idx) ==
    IF idx \in ChainedIdx(ents, in_root)
    THEN make_location(FS6_DirBlockType_LINK, LinkBlockNum, GroupBase(ents, in_root, idx))
    ELSE DirentLocation(CHOOSE i \in Bucket(ents, in_root, idx) : TRUE)

\* offset -> the uint32 at that offset of the hash table (0 where not listed)
HashTable(ents, in_root) ==
    [off \in {hash_entry_offset(idx) : idx \in UsedIdx(ents, in_root)} |->
        HashEntryOf(ents, in_root,
                    CHOOSE idx \in UsedIdx(ents, in_root) : hash_entry_offset(idx) = off)]

\* offset -> the FS6_DirEntry at that offset
DirEntries6(ents, in_root) ==
    [off \in {dirent_offset(DirentBlockNum((i - 1) \div DirSlots), (i - 1) % DirSlots) :
                i \in 1..Len(ents)} |->
        LET i == CHOOSE i \in 1..Len(ents) :
                    dirent_offset(DirentBlockNum((i - 1) \div DirSlots),
                                  (i - 1) % DirSlots) = off
        IN [address |-> FdAddrOf(i), name |-> ents[i].name,
            hashIndex |-> HashIdxOf(ents, in_root, i),
            linkHash |-> LinkHashOf(ents, in_root, i)]]

\* The first byte of the bitmap of the k-th block of entries: bit s is set
\* when slot s is free
RECURSIVE BitmapByte(_, _, _)
BitmapByte(ents, k, s) ==
    IF s = DirSlots THEN 0
    ELSE (IF k * DirSlots + s + 1 \in LiveEntries(ents) THEN 0 ELSE Pow2(s))
         + BitmapByte(ents, k, s + 1)

\* offset -> the FS6_DirBlockHeader at that offset (of the blocks of entries)
BlockHeaders(ents) ==
    [off \in {dir_block_offset(DirentBlockNum(k)) : k \in 0..(NumDirentBlocks - 1)} |->
        [type |-> FS6_DirBlockType_DIRENT,
         totalSlots |-> DirSlots,
         bitmap |-> <<BitmapByte(ents,
                                 CHOOSE k \in 0..(NumDirentBlocks - 1) :
                                     dir_block_offset(DirentBlockNum(k)) = off,
                                 0)>>]]

\* The type of block n of the file, and the allocation map: 4 bits a block,
\* two blocks a byte, the first in the high bits
BlockTypeOf(n) ==
    IF n = 0 THEN FS6_DirBlockType_ALLOCATION_MAP
    ELSE IF n = LinkBlockNum THEN FS6_DirBlockType_LINK
    ELSE IF n <= DirentBlockNum(NumDirentBlocks - 1) THEN FS6_DirBlockType_DIRENT
    ELSE 0
LastBlockNum == Max(LinkBlockNum, DirentBlockNum(NumDirentBlocks - 1))
AllocationMap ==
    [j \in 1..((LastBlockNum + 2) \div 2) |->
        BlockTypeOf(2 * j - 2) * 16 + BlockTypeOf(2 * j - 1)]

\* The FS6_DirHeader of a directory with the given descriptor address
DirHeader(ents, address) ==
    [version |-> FS6_DIR_HEADER_VERSION,
     numEntries |-> 2 + Cardinality(LiveEntries(ents)),
     numAllocationMapBlocks |-> 1,
     allocationMapBlocks |-> <<0>>,
     selfEntry |-> [address |-> address, name |-> "."],
     parentEntry |-> [address |-> rootDirDescAddr, name |-> ".."]]

\* The FS3_DirEntry array of a VMFS5 directory: a deleted entry has descAddr 0
DirArray5(ents, address) ==
    <<[descAddr |-> address, name |-> "."], [descAddr |-> rootDirDescAddr, name |-> ".."]>>
    \o [i \in 1..Len(ents) |->
          [descAddr |-> IF ents[i].live THEN FdAddrOf(i) ELSE 0, name |-> ents[i].name]]

\* A file descriptor and the content of its file
DirOf(ver, is_dir, address, ents) ==
    [ver |-> ver, is_dir |-> is_dir, address |-> address, ents |-> ents,
     size |-> IF ver = 5 THEN (Len(ents) + 2) * len_FS3_DirEntry ELSE 0,
     array |-> IF ver = 5 THEN DirArray5(ents, address) ELSE <<>>,
     header |-> IF ver = 6 THEN DirHeader(ents, address) ELSE <<>>,
     hash |-> IF ver = 6 THEN HashTable(ents, address = rootDirDescAddr) ELSE <<>>,
     amap |-> IF ver = 6 THEN [off \in {dir_block_offset(0)} |-> AllocationMap] ELSE <<>>,
     bhdr |-> IF ver = 6 THEN BlockHeaders(ents) ELSE <<>>,
     dirents |-> IF ver = 6 THEN DirEntries6(ents, address = rootDirDescAddr) ELSE <<>>,
     groups |-> IF ver = 6 THEN LinkGroups(ents, address = rootDirDescAddr) ELSE <<>>]

\* --- descriptor.py: iterdir() and get() -----------------------------------

DirEntry(address, name) == [kind |-> "entry", address |-> address, name |-> name]
Raised(error) == [kind |-> "raised", error |-> error]

\* FileDescriptor5._iterdir: the entries of the array whose descAddr is not 0
FileDescriptor5_iterdir(dir) ==
    LET array == SubSeq(dir.array, 1, dir.size \div len_FS3_DirEntry)
        used == SelectSeq(array, LAMBDA dirent : dirent.descAddr # 0)
    IN [i \in 1..Len(used) |-> DirEntry(used[i].descAddr, used[i].name)]

\* FileDescriptor5._get: the first entry of iterdir() that has the name
FileDescriptor5_get(entries, name) ==
    IF \E i \in 1..Len(entries) : entries[i].name = name
    THEN entries[CHOOSE i \in 1..Len(entries) :
                    /\ entries[i].name = name
                    /\ \A j \in 1..(i - 1) : entries[j].name # name]
    ELSE Raised("FileNotFoundError")

\* _iter_dir_allocation_map(buf): 4 bits an entry, the high bits of a byte first
iter_dir_allocation_map(buf) ==
    [k \in 1..(2 * Len(buf)) |->
        [type |-> (IF k % 2 = 1 THEN buf[(k + 1) \div 2] \div 16
                                ELSE buf[(k + 1) \div 2] % 16) % 4,
         free |-> ((IF k % 2 = 1 THEN buf[(k + 1) \div 2] \div 16
                                 ELSE buf[(k + 1) \div 2] % 16) \div 4) % 2 = 1,
         notWritten |-> ((IF k % 2 = 1 THEN buf[(k + 1) \div 2] \div 16
                                       ELSE buf[(k + 1) \div 2] % 16) \div 8) % 2 = 1]]

\* _iter_dir_blocks: <<type, block>> for each entry of each allocation map
\* block, from the i-th on (the bytes of a map past those the model holds are
\* 0 and give entries of type 0)
RECURSIVE iter_dir_blocks(_, _, _, _)
iter_dir_blocks(dir, allocation_map_blocks, blk_size, i) ==
    IF i >= Len(allocation_map_blocks) THEN <<>>
    ELSE [k \in 1..(2 * Len(dir.amap[FS6_DIR_HEADER_BLOCK_SIZE
                                      + (allocation_map_blocks[i + 1] * blk_size)])) |->
            <<iter_dir_allocation_map(
                  dir.amap[FS6_DIR_HEADER_BLOCK_SIZE
                           + (allocation_map_blocks[i + 1] * blk_size)])[k].type,
              (i * ((2 * blk_size) - (len_FS6_DirBlockHeader * 2))) + (k - 1)>>]
         \o iter_dir_blocks(dir, allocation_map_blocks, blk_size, i + 1)

\* Is slot i of the block allocated: (bitmap[i >> 3] >> (i & 7)) & 1 == 0
SlotAllocated(block_header, i) ==
    (block_header.bitmap[(i \div 8) + 1] \div Pow2(i % 8)) % 2 = 0

DirEntryAt(dir, offset) == DirEntry(dir.dirents[offset].address, dir.dirents[offset].name)

\* The loop of FileDescriptor6._iterdir, each entry put before those yielded
\* so far
RECURSIVE iterdir6_slots_newest_first(_, _, _, _, _, _)
iterdir6_slots_newest_first(dir, blocks, b, i, remaining_entries, out) ==
    IF b > Len(blocks) THEN out
    ELSE IF blocks[b][1] # FS6_DirBlockType_DIRENT
    THEN iterdir6_slots_newest_first(dir, blocks, b + 1, 0, remaining_entries, out)
    ELSE IF i >= dir.bhdr[dir_block_offset(blocks[b][2])].totalSlots
    THEN iterdir6_slots_newest_first(dir, blocks, b + 1, 0, remaining_entries, out)
    ELSE IF SlotAllocated(dir.bhdr[dir_block_offset(blocks[b][2])], i)
    THEN IF remaining_entries - 1 = 0
         THEN <<DirEntryAt(dir, dirent_offset(blocks[b][2], i))>> \o out
         ELSE iterdir6_slots_newest_first(dir, blocks, b, i + 1, remaining_entries - 1,
                  <<DirEntryAt(dir, dirent_offset(blocks[b][2], i))>> \o out)
    ELSE IF remaining_entries = 0 THEN out
    ELSE iterdir6_slots_newest_first(dir, blocks, b, i + 1, remaining_entries, out)

\* The loop of FileDescriptor6._iterdir over the blocks and their slots: b is
\* the position in blocks, i the slot, out the entries yielded so far
RECURSIVE iterdir6_slots(_, _, _, _, _, _)
iterdir6_slots(dir, blocks, b, i, remaining_entries, out) ==
    IF b > Len(blocks) THEN out
    ELSE IF blocks[b][1] # FS6_DirBlockType_DIRENT
    THEN iterdir6_slots(dir, blocks, b + 1, 0, remaining_entries, out)
    ELSE IF i >= dir.bhdr[dir_block_offset(blocks[b][2])].totalSlots
    THEN iterdir6_slots(dir, blocks, b + 1, 0, remaining_entries, out)
    ELSE IF SlotAllocated(dir.bhdr[dir_block_offset(blocks[b][2])], i)
    THEN IF remaining_entries - 1 = 0
         THEN Append(out, DirEntryAt(dir, dirent_offset(blocks[b][2], i)))
         ELSE iterdir6_slots(dir, blocks, b, i + 1, remaining_entries - 1,
                             Append(out, DirEntryAt(dir, dirent_offset(blocks[b][2], i))))
    ELSE IF remaining_entries = 0 THEN out
    ELSE iterdir6_slots(dir, blocks, b, i + 1, remaining_entries, out)

\* FileDescriptor6._iterdir after the self entry: the parent entry, the blocks
iterdir6_parent(dir, remaining_entries, out) ==
    IF remaining_entries = 0 THEN out
    ELSE IF dir.header.parentEntry.address # 0
    THEN IF remaining_entries - 1 = 0
         THEN Append(out, DirEntry(dir.header.parentEntry.address, dir.header.parentEntry.name))
         ELSE iterdir6_slots(dir,
                  iter_dir_blocks(dir,
                      SubSeq(dir.header.allocationMapBlocks, 1, dir.header.numAllocationMapBlocks),
                      DirMdAlignment, 0),
                  1, 0, remaining_entries - 1,
                  Append(out, DirEntry(dir.header.parentEntry.address, dir.header.parentEntry.name)))
    ELSE iterdir6_slots(dir,
             iter_dir_blocks(dir,
                 SubSeq(dir.header.allocationMapBlocks, 1, dir.header.numAllocationMapBlocks),
                 DirMdAlignment, 0),
             1, 0, remaining_entries, out)

\* FileDescriptor6._iterdir
FileDescriptor6_iterdir(dir) ==
    IF dir.header.version \notin {FS6_DIR_HEADER_VERSION, FS6_DIR_HEADER_DEBUG_VERSION}
    THEN Raised("NotADirectoryError")
    ELSE IF dir.header.selfEntry.address # 0
    THEN iterdir6_parent(dir, dir.header.numEntries - 1,
             <<DirEntry(dir.header.selfEntry.address, dir.header.selfEntry.name)>>)
    ELSE iterdir6_parent(dir, dir.header.numEntries, <<>>)

\* FileDescriptor.iterdir: the entries yielded, or the error raised
iterdir(dir) ==
    IF ~dir.is_dir THEN Raised("NotADirectoryError")
    ELSE IF dir.ver = 5 THEN FileDescriptor5_iterdir(dir)
    ELSE FileDescriptor6_iterdir(dir)

\* The uint32 at an offset of the hash table
HashEntryAt(dir, offset) == IF offset \in DOMAIN dir.hash THEN dir.hash[offset] ELSE 0

\* _dir_hash_get_location(fh, key)
dir_hash_get_location(dir, key) == dir_parse_location(HashEntryAt(dir, hash_entry_offset(key)))

\* _dir_link_resolve over every link of the group, the free ones included
dir_link_resolve_all_links(link_group, hash_idx, link_hash) ==
    IF link_group.hashIndex # hash_idx THEN "KeyError"
    ELSE IF \E k \in 1..link_group.totalLinks : link_group.links[k].hash = link_hash
    THEN dir_parse_location(
             link_group.links[CHOOSE k \in 1..link_group.totalLinks :
                 /\ link_group.links[k].hash = link_hash
                 /\ \A j \in 1..(k - 1) : link_group.links[j].hash # link_hash].location)
    ELSE dir_parse_location(link_group.nextGroup)

\* _dir_link_resolve on the link group read: the location of the first link
\* with the hash, else that of the next group; KeyError on another hash index
dir_link_resolve(link_group, hash_idx, link_hash) ==
    IF link_group.hashIndex # hash_idx THEN "KeyError"
    ELSE IF \E k \in 1..(link_group.totalLinks - link_group.freeLinks) :
                link_group.links[k].hash = link_hash
    THEN dir_parse_location(
             link_group.links[CHOOSE k \in 1..(link_group.totalLinks - link_group.freeLinks) :
                 /\ link_group.links[k].hash = link_hash
                 /\ \A j \in 1..(k - 1) : link_group.links[j].hash # link_hash].location)
    ELSE dir_parse_location(link_group.nextGroup)

\* --- Directories as a state machine ----------------------------------------

DirIdle ==
    /\ d_dir = [ver |-> 0]
    /\ d_rd = NoCall

\* The contents of a directory: at most MaxNames entries, no two live entries
\* with the same name
DirContents ==
    {ents \in UNION {[1..n -> [name : DirNames, live : BOOLEAN]] : n \in 0..MaxNames} :
        \A i, j \in 1..Len(ents) :
            (i # j /\ ents[i].live /\ ents[j].live) => ents[i].name # ents[j].name}

\* A VMFS5 or VMFS6 descriptor: the root directory, another directory, or a
\* descriptor that is no directory
DirInit ==
    /\ d_dir \in {DirOf(ver, TRUE, address, ents) :
                    ver \in {5, 6},
                    address \in {rootDirDescAddr, rootDirDescAddr + 64 * (MaxNames + 1)},
                    ents \in DirContents}
                 \cup {DirOf(ver, FALSE, rootDirDescAddr + 64 * (MaxNames + 1), <<>>) :
                         ver \in {5, 6}}
    /\ d_rd = NoCall

\* FileDescriptor.iterdir(), run to its end
DirIterdir ==
    /\ d_rd.pc = "none"
    /\ d_rd' = [pc |-> "done", op |-> "iterdir", result |-> iterdir(d_dir)]
    /\ UNCHANGED d_dir
    /\ UNCHANGED OtherThanDir

\* What get() has in hand after the hash table was read
GetLocated(name, hash, location) ==
    IF location[1] = 0
    THEN [pc |-> "done", op |-> "get", name |-> name, hops |-> 0,
          result |-> Raised("FileNotFoundError")]
    ELSE [pc |-> "resolve", op |-> "get", name |-> name, hops |-> 0,
          link_hash |-> hash[1], hash_idx |-> hash[2],
          type |-> location[1], block |-> location[2], slot |-> location[3]]

GetHashed(dir, name, hash) == GetLocated(name, hash, dir_hash_get_location(dir, hash[2]))

GetDone(name, result) ==
    [pc |-> "done", op |-> "get", name |-> name, hops |-> 0, result |-> result]

\* FileDescriptor.get(name) up to the lookup in the hash table; on VMFS5, and
\* for . and .. on VMFS6, to its end
DirGetStart ==
    /\ d_rd.pc = "none"
    /\ \E name \in AskedNames :
         d_rd' =
           IF ~d_dir.is_dir THEN GetDone(name, Raised("NotADirectoryError"))
           ELSE IF d_dir.ver = 5
           THEN GetDone(name, FileDescriptor5_get(iterdir(d_dir), name))
           ELSE IF d_dir.header.version
                     \notin {FS6_DIR_HEADER_VERSION, FS6_DIR_HEADER_DEBUG_VERSION}
           THEN GetDone(name, Raised("NotADirectoryError"))
           ELSE IF name = "." /\ d_dir.header.selfEntry.address # 0
           THEN GetDone(name, DirEntry(d_dir.header.selfEntry.address,
                                       d_dir.header.selfEntry.name))
           ELSE IF name = ".." /\ d_dir.header.parentEntry.address # 0
           THEN GetDone(name, DirEntry(d_dir.header.parentEntry.address,
                                       d_dir.header.parentEntry.name))
           ELSE GetHashed(d_dir, name,
                          dir_name_hash(name, d_dir.address = rootDirDescAddr))
    /\ UNCHANGED d_dir
    /\ UNCHANGED OtherThanDir

\* get() after a link group was resolved
GetResolved(rd, location) ==
    IF location = "KeyError"
    THEN [pc |-> "done", op |-> "get", name |-> rd.name, hops |-> rd.hops + 1,
          result |-> Raised("FileNotFoundError")]
    ELSE [rd EXCEPT !.hops = rd.hops + 1,
                    !.type = location[1], !.block = location[2], !.slot = location[3]]

\* The FS6_DirLinkGroup at an offset (zeroes where the file holds none)
LinkGroupAt(dir, offset) ==
    IF offset \in DOMAIN dir.groups THEN dir.groups[offset]
    ELSE [hashIndex |-> 0, totalLinks |-> 0, freeLinks |-> 0, links |-> <<>>, nextGroup |-> 0]

\* One turn of the loop of FileDescriptor6._get: while the location is a link
DirLinkResolve ==
    /\ d_rd.pc = "resolve"
    /\ d_rd.type = FS6_DirBlockType_LINK
    /\ d_rd' = GetResolved(d_rd,
                   dir_link_resolve(
                       LinkGroupAt(d_dir, link_group_offset(d_rd.block, d_rd.slot)),
                       d_rd.hash_idx, d_rd.link_hash))
    /\ UNCHANGED d_dir
    /\ UNCHANGED OtherThanDir

\* The end of FileDescriptor6._get: the entry at the location, if it is one
DirGetReturn ==
    /\ d_rd.pc = "resolve"
    /\ d_rd.type # FS6_DirBlockType_LINK
    /\ d_rd' = [pc |-> "done", op |-> "get", name |-> d_rd.name, hops |-> d_rd.hops,
                result |-> IF d_rd.type = FS6_DirBlockType_DIRENT
                           THEN DirEntryAt(d_dir, dirent_offset(d_rd.block, d_rd.slot))
                           ELSE Raised("FileNotFoundError")]
    /\ UNCHANGED d_dir
    /\ UNCHANGED OtherThanDir

DirNext ==
    \/ DirIterdir
    \/ DirGetStart
    \/ DirLinkResolve
    \/ DirGetReturn

-----------------------------------------------------------------------------
(* The claims about directories *)

\* The names the entries of the directory carry, and the names iterdir() yields
Carried(dir) == {".", ".."} \cup {dir.ents[i].name : i \in LiveEntries(dir.ents)}
YieldedNames(dir) == {iterdir(dir)[i].name : i \in 1..Len(iterdir(dir))}

GetReturned == d_rd.pc = "done" /\ d_rd.op = "get" /\ d_dir.is_dir

\* Another entry of the directory has a name with the same link hash and the
\* same hash index
SharesHashes(dir, name) ==
    \E i \in LiveEntries(dir.ents) :
        /\ dir.ents[i].name # name
        /\ dir_name_hash(dir.ents[i].name, dir.address = rootDirDescAddr)
             = dir_name_hash(name, dir.address = rootDirDescAddr)

\* The hash table and the link groups lead from the hashes of the name to an
\* entry: one entry alone has its hash index, or one of several has its link
\* hash as well
HashesLeadToEntry(dir, name) ==
    LET hash == dir_name_hash(name, dir.address = rootDirDescAddr)
        bucket == Bucket(dir.ents, dir.address = rootDirDescAddr, hash[2])
    IN \/ Cardinality(bucket) = 1
       \/ \E i \in bucket : LinkHashOf(dir.ents, dir.address = rootDirDescAddr, i) = hash[1]

\* C8: for every entry that iterdir() yields, get(entry.name) returns an entry
\* whose name equals entry.name, on VMFS5 and on VMFS6, the names whose hash
\* index collides included.
C8_GetYielded ==
    (GetReturned /\ d_rd.name \in YieldedNames(d_dir))
        => (d_rd.result.kind = "entry" /\ d_rd.result.name = d_rd.name)

\* C8, for the names that share their two hashes with no other entry: get()
\* of a name that iterdir() yields returns the entry of that name, through
\* the link groups when its hash index collides.
C8_GetYieldedOwnHashes ==
    (GetReturned /\ d_rd.name \in YieldedNames(d_dir)
        /\ (d_dir.ver = 6 => ~SharesHashes(d_dir, d_rd.name)))
        => (d_rd.result.kind = "entry" /\ d_rd.result.name = d_rd.name)

C8_Witness ==
    /\ GetReturned
    /\ d_dir.ver = 6
    /\ d_rd.hops >= 1
    /\ d_rd.result = DirEntry(d_rd.result.address, d_rd.name)
    /\ Cardinality(Bucket(d_dir.ents, d_dir.address = rootDirDescAddr,
                          dir_name_hash(d_rd.name, d_dir.address = rootDirDescAddr)[2])) > 1

\* C9: get(name) on a directory raises FileNotFoundError for every name that
\* no entry of the directory carries, and never returns an entry whose name
\* differs from the name asked for.
C9_NotFound ==
    GetReturned
        => /\ d_rd.name \notin Carried(d_dir) => d_rd.result = Raised("FileNotFoundError")
           /\ d_rd.result.kind = "entry" => d_rd.result.name = d_rd.name

\* C9, where the hashes do not lead to an entry: get(name) raises
\* FileNotFoundError for a name that no entry carries, on VMFS5 always, on
\* VMFS6 unless the hash table and the link groups lead from the hashes of the
\* name to the entry of another name.
C9_NotFoundUnlessHashed ==
    (GetReturned /\ d_rd.name \notin Carried(d_dir)
        /\ (d_dir.ver = 6 => ~HashesLeadToEntry(d_dir, d_rd.name)))
        => d_rd.result = Raised("FileNotFoundError")

C9_Witness ==
    /\ GetReturned
    /\ d_dir.ver = 6
    /\ d_rd.name \notin Carried(d_dir)
    /\ d_rd.hops >= 1
    /\ d_rd.result = Raised("FileNotFoundError")

\* The entries of the directory in storage order: . and .., then the entries
\* that are not deleted, by their place in the file
StorageOrder(dir) ==
    <<DirEntry(dir.address, "."), DirEntry(rootDirDescAddr, "..")>>
    \o [k \in 1..Cardinality(LiveEntries(dir.ents)) |->
          DirEntry(FdAddrOf(SeqOfSet(LiveEntries(dir.ents))[k]),
                   dir.ents[SeqOfSet(LiveEntries(dir.ents))[k]].name)]

-----------------------------------------------------------------------------
(* lvm.py: Device.__init__ *)

\* c_lvm.py: 0xC001D00D, as the set of its 1 bits
LVM_MAGIC_NUMBER == {0, 2, 3, 12, 14, 15, 16, 30, 31}
LVM_DEV_HEADER_OFFSET == 1048576
LVM_MAX_VOLUMES_PER_DEV_LVM5 == 512
LVM_MAX_VOLUMES_PER_DEV_LVM6 == 1

\* Bound: the number of extended metadata blocks a device image holds
MaxChain == 2

\* The offsets of the extended metadata blocks of a device image
ExtOffsets == {LVM_DEV_HEADER_OFFSET * (k + 1) : k \in 1..MaxChain}

\* The magics a block may carry: the right one, one with a bit cleared, none
Magics == {LVM_MAGIC_NUMBER, LVM_MAGIC_NUMBER \ {31}, {}}

DevIdle ==
    /\ m_fh = <<>>
    /\ m_dev = NoCall

\* A device image: the LVM_DevMetadata at LVM_DEV_HEADER_OFFSET and extended
\* metadata blocks, whose offsets may form a chain, a cycle, or stay unused
DevInit ==
    /\ m_fh \in {[off \in {LVM_DEV_HEADER_OFFSET} \cup ExtOffsets |->
                    IF off = LVM_DEV_HEADER_OFFSET
                    THEN [magic |-> magic, majorVersion |-> ver[1], numVolumes |-> ver[2],
                          extDevMetadataOffset |-> first]
                    ELSE ext[off]] :
                 magic \in {LVM_MAGIC_NUMBER, LVM_MAGIC_NUMBER \ {31}},
                 ver \in {<<5, 1>>, <<5, LVM_MAX_VOLUMES_PER_DEV_LVM5 + 1>>, <<6, 1>>, <<6, 2>>},
                 first \in {0} \cup ExtOffsets,
                 ext \in [ExtOffsets -> [magic : Magics, nextOffset : {0} \cup ExtOffsets]]}
    /\ m_dev = NoCall

\* Device.__init__ up to the loop: the device metadata and its magic
DeviceOpen ==
    /\ m_dev.pc = "none"
    /\ m_dev' = IF m_fh[LVM_DEV_HEADER_OFFSET].magic # LVM_MAGIC_NUMBER
                THEN [pc |-> "done", raised |-> "InvalidHeader", ext_metadata |-> <<>>]
                ELSE [pc |-> "chain", raised |-> "",  ext_metadata |-> <<>>,
                      ext_dev_metadata_offset |->
                          m_fh[LVM_DEV_HEADER_OFFSET].extDevMetadataOffset]
    /\ UNCHANGED m_fh
    /\ UNCHANGED OtherThanDev

\* The body of the loop without the test of the magic
DeviceReadExt_any_magic(dev, ext_meta) ==
    [dev EXCEPT !.ext_metadata = Append(dev.ext_metadata, ext_meta),
                !.ext_dev_metadata_offset = ext_meta.nextOffset]

\* The body of the loop, on the LVM_ExtDevMetadata read at the offset
DeviceReadExt(dev, ext_meta) ==
    IF ext_meta.magic # LVM_MAGIC_NUMBER
    THEN [pc |-> "done", raised |-> "InvalidHeader", ext_metadata |-> dev.ext_metadata]
    ELSE [dev EXCEPT !.ext_metadata = Append(dev.ext_metadata, ext_meta),
                     !.ext_dev_metadata_offset = ext_meta.nextOffset]

\* One turn of the loop: while ext_dev_metadata_offset != 0 (a cycle of
\* offsets keeps the loop turning; the model follows it MaxChain + 1 turns)
DeviceExtMetadata ==
    /\ m_dev.pc = "chain"
    /\ m_dev.ext_dev_metadata_offset # 0
    /\ Len(m_dev.ext_metadata) <= MaxChain
    /\ m_dev' = DeviceReadExt(m_dev, m_fh[m_dev.ext_dev_metadata_offset])
    /\ UNCHANGED m_fh
    /\ UNCHANGED OtherThanDev

\* _max_volumes_per_device
max_volumes_per_device(major_version) ==
    IF major_version < 6 THEN LVM_MAX_VOLUMES_PER_DEV_LVM5 ELSE LVM_MAX_VOLUMES_PER_DEV_LVM6

\* Device.__init__ after the loop: the version, the number of volumes
DeviceFinish ==
    /\ m_dev.pc = "chain"
    /\ m_dev.ext_dev_metadata_offset = 0
    /\ m_dev' = [pc |-> "done",
                 raised |-> IF m_fh[LVM_DEV_HEADER_OFFSET].numVolumes
                                > max_volumes_per_device(m_fh[LVM_DEV_HEADER_OFFSET].majorVersion)
                            THEN "ValueError" ELSE "",
                 ext_metadata |-> m_dev.ext_metadata]
    /\ UNCHANGED m_fh
    /\ UNCHANGED OtherThanDev

DevNext == DeviceOpen \/ DeviceExtMetadata \/ DeviceFinish

\* The chain of extended metadata blocks from an offset, to the first zero
\* offset or the first block of another magic, that block included
RECURSIVE ExtChain(_, _, _)
ExtChain(fh, offset, fuel) ==
    IF offset = 0 \/ fuel = 0 THEN <<>>
    ELSE IF fh[offset].magic # LVM_MAGIC_NUMBER THEN <<fh[offset]>>
    ELSE <<fh[offset]>> \o ExtChain(fh, fh[offset].nextOffset, fuel - 1)

DevChain == ExtChain(m_fh, m_fh[LVM_DEV_HEADER_OFFSET].extDevMetadataOffset, MaxChain + 1)
DevChainBad == DevChain # <<>> /\ DevChain[Len(DevChain)].magic # LVM_MAGIC_NUMBER

\* C11: Device.__init__ raises InvalidHeader when the device metadata does not
\* carry the magic, and when a block reached through extDevMetadataOffset and
\* nextOffset does not; when every magic matches, ext_metadata holds the
\* blocks of the chain, in chain order, up to the first zero offset.
C11_DeviceOpen ==
    m_dev.pc = "done" =>
        /\ m_fh[LVM_DEV_HEADER_OFFSET].magic # LVM_MAGIC_NUMBER
             => m_dev.raised = "InvalidHeader"
        /\ (m_fh[LVM_DEV_HEADER_OFFSET].magic = LVM_MAGIC_NUMBER /\ DevChainBad)
             => m_dev.raised = "InvalidHeader"
        /\ (m_fh[LVM_DEV_HEADER_OFFSET].magic = LVM_MAGIC_NUMBER /\ ~DevChainBad)
             => /\ m_dev.raised # "InvalidHeader"
                /\ m_dev.ext_metadata = DevChain
                /\ \A i \in 1..Len(DevChain) :
                     (DevChain[i].nextOffset = 0) <=> (i = Len(DevChain))

C11_Witness ==
    /\ m_dev.pc = "done"
    /\ m_dev.raised = ""
    /\ Len(m_dev.ext_metadata) = MaxChain
    /\ m_dev.ext_metadata[1] # m_dev.ext_metadata[2]


\* The offset the loop of Device.__init__ is at after n more turns from an
\* offset (0 once the loop has ended)
RECURSIVE ExtWalk(_, _, _)
ExtWalk(fh, offset, n) ==
    IF offset = 0 THEN 0
    ELSE IF n = 0 THEN offset
    ELSE IF fh[offset].magic # LVM_MAGIC_NUMBER THEN 0
    ELSE ExtWalk(fh, fh[offset].nextOffset, n - 1)

\* The nextOffset fields lead from the offset the loop is at back to it
ChainLoops ==
    /\ m_dev.pc = "chain"
    /\ m_dev.ext_dev_metadata_offset # 0
    /\ \E n \in 1..MaxChain :
          ExtWalk(m_fh, m_dev.ext_dev_metadata_offset, n) = m_dev.ext_dev_metadata_offset

\* C29 as stated: opening a Device terminates for every device content: the
\* walk over the extended metadata chain is never at an offset the nextOffset
\* fields lead back to, and it reads no more blocks than the device holds, also
\* when the nextOffset fields form a cycle.
C29_ChainWalkEnds ==
    m_dev.pc # "none"
        => /\ Len(m_dev.ext_metadata) <= MaxChain
           /\ ~ChainLoops

\* C29, what the code does: a call that ends has read no more blocks than the
\* device holds, and a loop that has read more is on a cycle of nextOffset
\* fields, which it follows without end.
C29_ChainWalkEndsUnlessCycle ==
    m_dev.pc # "none"
        => /\ m_dev.pc = "done" => Len(m_dev.ext_metadata) <= MaxChain
           /\ Len(m_dev.ext_metadata) > MaxChain => ChainLoops
           /\ ChainLoops => ~ENABLED DeviceFinish

C29_Witness ==
    /\ ChainLoops
    /\ Len(m_dev.ext_metadata) = MaxChain + 1
-----------------------------------------------------------------------------
(* descriptor.py: the operations that depend on the type of the descriptor *)

\* c_vmfs.FS3_DescriptorType
FS3_DescriptorTypes ==
    {"INVALID", "VOLUME", "DIRECTORY", "REGFILE", "SYMLINK", "SYSFILE", "RDM", "SENTINEL"}

is_system(fd) == fd.type = "SYSFILE"
is_dir(fd) == fd.type = "DIRECTORY" \/ (is_system(fd) /\ fd.S_ISDIR)
is_symlink(fd) == fd.type = "SYMLINK"
is_rdm(fd) == fd.type = "RDM"

Returned(value) == [raised |-> "", value |-> value]
Failed(error) == [raised |-> error, value |-> "none"]

\* FileDescriptor.open() without the test of the type
FileDescriptor_open_any_type(fd) ==
    IF fd.fh = "None" THEN Returned("BestEffortBlockStream") ELSE Returned("BlockStream")

\* FileDescriptor.open()
FileDescriptor_open(fd) ==
    IF is_rdm(fd) THEN Failed("NotImplementedError")
    ELSE IF fd.fh = "None" THEN Returned("BestEffortBlockStream")
    ELSE Returned("BlockStream")

\* FileDescriptor.iterdir(), the generator run; what _iterdir yields is the
\* matter of the directories above
FileDescriptor_iterdir(fd) ==
    IF ~is_dir(fd) THEN Failed("NotADirectoryError") ELSE Returned("entries")

\* FileDescriptor.get(name)
FileDescriptor_get(fd) ==
    IF ~is_dir(fd) THEN Failed("NotADirectoryError") ELSE Returned("entry")

\* FileDescriptor.link: the content of the stream open() returns, decoded
FileDescriptor_link(fd) ==
    IF ~is_symlink(fd) THEN Failed("NotASymlinkError")
    ELSE IF FileDescriptor_open(fd).raised # "" THEN FileDescriptor_open(fd)
    ELSE Returned("str")

\* FileDescriptor.rdm_mapping
FileDescriptor_rdm_mapping(fd) ==
    IF ~is_rdm(fd) THEN Failed("NotAnRDMFileError") ELSE Returned("FS3_RawDiskMap")

TypeIdle ==
    /\ t_fd = [type |-> "INVALID"]
    /\ t_rd = NoCall

\* A descriptor of any type, its mode that of a directory or not, of a
\* filesystem with a volume handle or without
TypeInit ==
    /\ t_fd \in [type : FS3_DescriptorTypes, S_ISDIR : BOOLEAN, fh : {"None", "fh"}]
    /\ t_rd = NoCall

TypeCall(op, outcome) ==
    /\ t_rd.pc = "none"
    /\ t_rd' = [pc |-> "done", op |-> op, raised |-> outcome.raised, value |-> outcome.value]
    /\ UNCHANGED t_fd
    /\ UNCHANGED OtherThanType

TypeIterdir == TypeCall("iterdir", FileDescriptor_iterdir(t_fd))
TypeGet == TypeCall("get", FileDescriptor_get(t_fd))
TypeLink == TypeCall("link", FileDescriptor_link(t_fd))
TypeRdmMapping == TypeCall("rdm_mapping", FileDescriptor_rdm_mapping(t_fd))
TypeOpen == TypeCall("open", FileDescriptor_open(t_fd))

TypeNext == TypeIterdir \/ TypeGet \/ TypeLink \/ TypeRdmMapping \/ TypeOpen

\* A directory: a descriptor of type DIRECTORY, or a system file whose mode
\* is that of a directory
IsDirectory(fd) == fd.type = "DIRECTORY" \/ (fd.type = "SYSFILE" /\ fd.S_ISDIR)

\* C12: an operation on a descriptor of the wrong type raises its error and
\* returns nothing: iterdir() and get() NotADirectoryError on what is no
\* directory, link NotASymlinkError on what is no symlink, rdm_mapping
\* NotAnRDMFileError on what is no RDM file, open() NotImplementedError on an
\* RDM file.
C12_WrongType ==
    t_rd.pc = "done" =>
        /\ (t_rd.op \in {"iterdir", "get"} /\ ~IsDirectory(t_fd))
             => (t_rd.raised = "NotADirectoryError" /\ t_rd.value = "none")
        /\ (t_rd.op = "link" /\ t_fd.type # "SYMLINK")
             => (t_rd.raised = "NotASymlinkError" /\ t_rd.value = "none")
        /\ (t_rd.op = "rdm_mapping" /\ t_fd.type # "RDM")
             => (t_rd.raised = "NotAnRDMFileError" /\ t_rd.value = "none")
        /\ (t_rd.op = "open" /\ t_fd.type = "RDM")
             => (t_rd.raised = "NotImplementedError" /\ t_rd.value = "none")

C12_Witness ==
    /\ t_rd.pc = "done"
    /\ t_rd.op = "open"
    /\ t_fd.type = "RDM"
    /\ t_rd.raised = "NotImplementedError"

-----------------------------------------------------------------------------
(* resource.py: the offsets of resources in a resource file *)

\* Bounds of the resource files
MaxCpg == 2         \* clustersPerGroup is in 1 .. MaxCpg
MaxRpc == 3         \* resourcesPerCluster is in 1 .. MaxRpc
MaxCluster == 3     \* the cluster of an address is in 0 .. MaxCluster
MaxLfbBlock == 5    \* the block of a large file block address is in 0 .. MaxLfbBlock

\* md.flags & 2 == 0 is false: the arena is a child arena of a VMFS6 file
IsChild(ver, md) == ver = 6 /\ IntAnd(md.flags, 2) # 0

\* ResourceFile._cluster_group_offset
ResourceFile_cluster_group_offset(ver, md, group) ==
    IF ver = 5 \/ (ver = 6 /\ IntAnd(md.flags, 2) = 0)
    THEN md.clusterGroupOffset + (group * md.clusterGroupSize)
    ELSE md.clusterGroupOffset
         + ((group \div ((md.parentClustersPerGroup * md.parentResourcesPerCluster)
                         \div md.clustersPerGroup)) * md.parentClusterGroupSize)
         + (md.parentClustersPerGroup * cluster_header_size(ver))
         + ((group % ((md.parentClustersPerGroup * md.parentResourcesPerCluster)
                      \div md.clustersPerGroup)) * md.clusterGroupSize)

\* ResourceFile._resource_offset without the cluster headers of the group
ResourceFile_resource_offset_no_headers(ver, md, cluster, resource) ==
    md.clusterGroupOffset
    + ((cluster \div md.clustersPerGroup) * md.clusterGroupSize)
    + ((cluster % md.clustersPerGroup) * (md.resourcesPerCluster * md.resourceSize))
    + (resource * md.resourceSize)

\* ResourceFile._resource_offset, with _cluster_size and _cluster_data_offset
\* of ResourceFile.__init__
ResourceFile_resource_offset(ver, md, cluster, resource) ==
    md.clusterGroupOffset
    + ((cluster \div md.clustersPerGroup) * md.clusterGroupSize)
    + ((cluster % md.clustersPerGroup) * (md.resourcesPerCluster * md.resourceSize))
    + (md.clustersPerGroup * cluster_header_size(ver))
    + (resource * md.resourceSize)

\* LargeFileBlockResourceVMFS6.parse_address
LargeFileBlockResourceVMFS6_parse_address(md, address) ==
    <<BitsToInt(LargeFileBlockAddr_parse(address)) \div Pow2(bsf(md.resourcesPerCluster)),
      IntAnd(BitsToInt(LargeFileBlockAddr_parse(address)), md.resourcesPerCluster - 1)>>

\* LargeFileBlockResourceVMFS6.resolve_address after parse_address
lfb_resolve_parsed(md, cr) ==
    ((cr[1] * Pow2(bsf(md.resourcesPerCluster))) + cr[2]) * Pow2(FileBlockShift + SfbToLfbShift)

\* LargeFileBlockResourceVMFS6.resolve_address
LargeFileBlockResourceVMFS6_resolve_address(md, address) ==
    lfb_resolve_parsed(md, LargeFileBlockResourceVMFS6_parse_address(md, address))

ResIdle ==
    /\ r_res = [ver |-> 0]
    /\ r_rd = NoCall

\* The least clusterGroupSize that holds the headers and the resources of a group
GroupBytes(ver, cpg, rpc, rs) == cpg * (cluster_header_size(ver) + rpc * rs)

\* The FS3_ResFileMetadata of an arena that is no child
PlainMetadata(ver) ==
    {[flags |-> 0, clusterGroupOffset |-> 64,
      clusterGroupSize |-> GroupBytes(ver, cpg, rpc, rs) + slack * rs,
      clustersPerGroup |-> cpg, resourcesPerCluster |-> rpc, resourceSize |-> rs,
      parentClustersPerGroup |-> 0, parentResourcesPerCluster |-> 0,
      parentClusterGroupSize |-> 0] :
        cpg \in 1..MaxCpg, rpc \in 1..MaxRpc, rs \in {8, 16}, slack \in {-1, 0, 1}}

\* The FS3_ResFileMetadata of a child arena: a parent cluster group holds its
\* cluster headers and the child cluster groups
ChildMetadata ==
    {[md EXCEPT !.flags = 2,
                !.parentClustersPerGroup = pcpg,
                !.parentResourcesPerCluster = md.clustersPerGroup * k,
                !.parentClusterGroupSize =
                    (pcpg * cluster_header_size(6)) + (pcpg * k * md.clusterGroupSize)] :
        md \in PlainMetadata(6), pcpg \in 1..2, k \in 1..2}

ResInit ==
    /\ r_res \in {[ver |-> 5, md |-> md] : md \in PlainMetadata(5)}
                 \cup {[ver |-> 6, md |-> md] : md \in PlainMetadata(6) \cup ChildMetadata}
    /\ r_rd = NoCall

\* ResourceFile._resource_offset(cluster, resource)
ResOffset ==
    /\ r_rd.pc = "none"
    /\ \E cluster \in 0..MaxCluster, resource \in 0..MaxRpc :
         r_rd' = [pc |-> "done", op |-> "_resource_offset",
                  cluster |-> cluster, resource |-> resource,
                  out |-> ResourceFile_resource_offset(r_res.ver, r_res.md, cluster, resource)]
    /\ UNCHANGED r_res
    /\ UNCHANGED OtherThanRes

\* LargeFileBlockResourceVMFS6.resolve_address(address), and parse_address(address)
ResLfbResolve ==
    /\ r_rd.pc = "none"
    /\ r_res.ver = 6
    /\ \E block \in 0..MaxLfbBlock, cow \in {{}, {0}}, tbz \in {{}, {0, 7}} :
         r_rd' = [pc |-> "done", op |-> "resolve_address",
                  address |-> LargeFileBlockAddr_make(IntToBits(block), cow, tbz),
                  parsed |-> LargeFileBlockResourceVMFS6_parse_address(r_res.md,
                                 LargeFileBlockAddr_make(IntToBits(block), cow, tbz)),
                  out |-> LargeFileBlockResourceVMFS6_resolve_address(r_res.md,
                              LargeFileBlockAddr_make(IntToBits(block), cow, tbz))]
    /\ UNCHANGED r_res
    /\ UNCHANGED OtherThanRes

ResNext == ResOffset \/ ResLfbResolve


\* The group of a cluster starts here in an arena that is no child
GroupStart(md, cluster) ==
    md.clusterGroupOffset + ((cluster \div md.clustersPerGroup) * md.clusterGroupSize)

\* A call of _resource_offset has returned
OffsetReturned == r_rd.pc = "done" /\ r_rd.op = "_resource_offset"

\* C14 as stated: for a child arena of a VMFS6 resource file, the offset of a
\* resource is counted from the cluster group offset that includes the cluster
\* headers of the parent and the position of the child group in the parent
\* group, the offset _cluster_group_offset computes.
C14_ChildPrefix ==
    (OffsetReturned /\ IsChild(r_res.ver, r_res.md)) =>
        r_rd.out = ResourceFile_cluster_group_offset(r_res.ver, r_res.md,
                       r_rd.cluster \div r_res.md.clustersPerGroup)
                   + ((r_rd.cluster % r_res.md.clustersPerGroup)
                      * (r_res.md.resourcesPerCluster * r_res.md.resourceSize))
                   + (r_res.md.clustersPerGroup * cluster_header_size(r_res.ver))
                   + (r_rd.resource * r_res.md.resourceSize)

\* C14, what the code does: for a child arena the offset of a resource is
\* counted from clusterGroupOffset + group * clusterGroupSize, as for an arena
\* that is no child; the parent fields of the metadata have no part in it.
C14_ChildAsPlain ==
    (OffsetReturned /\ IsChild(r_res.ver, r_res.md)) =>
        r_rd.out = GroupStart(r_res.md, r_rd.cluster)
                   + (r_res.md.clustersPerGroup * cluster_header_size(r_res.ver))
                   + ((((r_rd.cluster % r_res.md.clustersPerGroup)
                        * r_res.md.resourcesPerCluster) + r_rd.resource)
                      * r_res.md.resourceSize)

C14_Witness ==
    /\ OffsetReturned
    /\ IsChild(r_res.ver, r_res.md)
    /\ r_rd.cluster \div r_res.md.clustersPerGroup >= 1
    /\ r_rd.resource >= 1

\* The case of C15: an arena that is no child, a cluster group large enough for
\* its headers and its resources, a resource of the cluster
Placed ==
    /\ OffsetReturned
    /\ ~IsChild(r_res.ver, r_res.md)
    /\ r_res.md.clusterGroupSize >=
           r_res.md.clustersPerGroup
           * (cluster_header_size(r_res.ver)
              + (r_res.md.resourcesPerCluster * r_res.md.resourceSize))
    /\ r_rd.resource < r_res.md.resourcesPerCluster

\* C15: in an arena that is no child whose clusterGroupSize is at least
\* clustersPerGroup * (header size + resourcesPerCluster * resourceSize), a
\* resource lies after all the cluster headers of its group, inside its group,
\* and the byte ranges of two different (cluster, resource) pairs are disjoint.
C15_ResourcePlacement ==
    Placed =>
        /\ r_rd.out >= GroupStart(r_res.md, r_rd.cluster)
                       + (r_res.md.clustersPerGroup * cluster_header_size(r_res.ver))
        /\ r_rd.out + r_res.md.resourceSize
               <= GroupStart(r_res.md, r_rd.cluster) + r_res.md.clusterGroupSize
        /\ \A cluster \in 0..MaxCluster, resource \in 0..(r_res.md.resourcesPerCluster - 1) :
             (<<cluster, resource>> # <<r_rd.cluster, r_rd.resource>>) =>
                 \/ r_rd.out + r_res.md.resourceSize
                        <= ResourceFile_resource_offset(r_res.ver, r_res.md, cluster, resource)
                 \/ ResourceFile_resource_offset(r_res.ver, r_res.md, cluster, resource)
                        + r_res.md.resourceSize <= r_rd.out

C15_Witness ==
    /\ Placed
    /\ r_res.md.clustersPerGroup = 2
    /\ r_res.md.resourcesPerCluster = 3
    /\ r_rd.cluster = 3
    /\ r_rd.resource = 2

\* A call of resolve_address of the large file blocks has returned
LfbReturned == r_rd.pc = "done" /\ r_rd.op = "resolve_address"

\* The size of a large file block: file_block_size * 2^sfbToLfbShift
LfbSize == Pow2(FileBlockShift) * Pow2(SfbToLfbShift)

\* C16 as stated: for every resourcesPerCluster >= 1, the offset of a large
\* file block is (cluster * resourcesPerCluster + resource) * (file_block_size *
\* 2^sfbToLfbShift) for the cluster and resource parse_address gives, which is
\* the block number of the address times the size of a large file block.
C16_LfbResolve ==
    (LfbReturned /\ r_res.md.resourcesPerCluster >= 1) =>
        /\ r_rd.out = ((r_rd.parsed[1] * r_res.md.resourcesPerCluster) + r_rd.parsed[2])
                      * LfbSize
        /\ r_rd.out = BitsToInt(LargeFileBlockAddr_parse(r_rd.address)) * LfbSize

\* C16, what the code does: the equalities hold when resourcesPerCluster is a
\* power of two.
C16_LfbResolvePowerOfTwo ==
    (LfbReturned /\ r_res.md.resourcesPerCluster = Pow2(bsf(r_res.md.resourcesPerCluster))) =>
        /\ r_rd.out = ((r_rd.parsed[1] * r_res.md.resourcesPerCluster) + r_rd.parsed[2])
                      * LfbSize
        /\ r_rd.out = BitsToInt(LargeFileBlockAddr_parse(r_rd.address)) * LfbSize

C16_Witness ==
    /\ LfbReturned
    /\ r_res.md.resourcesPerCluster = 2
    /\ r_rd.parsed = <<2, 1>>
    /\ r_rd.out = 5 * LfbSize

-----------------------------------------------------------------------------
(* descriptor.py: the volume offset of an offset in a file *)

\* Bounds of the offsets
MaxFileOffset == 9      \* the offset in the file is in 0 .. MaxFileOffset
MaxBlockNum == 17       \* the block number of an offset is in 0 .. MaxBlockNum

\* The zero level address types of FS3_ZeroLevelAddrType
ZeroLevelAddrTypes ==
    {"INVALID", "FILE_BLOCK", "SUB_BLOCK", "POINTER_BLOCK", "POINTER2_BLOCK",
     "POINTER_BLOCK_DOUBLE", "FILE_DESCRIPTOR_RESIDENT"}

\* _offset_to_block_address with the secondary index of the double indirection
\* left unmasked
block_indices_unmasked(zla, block_num, shift) ==
    IF zla \in {"FILE_BLOCK", "SUB_BLOCK"} THEN [raised |-> "", idx |-> <<block_num>>]
    ELSE IF zla \in {"POINTER_BLOCK", "POINTER2_BLOCK"}
    THEN [raised |-> "",
          idx |-> <<block_num \div Pow2(shift), IntAnd(block_num, Pow2(shift) - 1)>>]
    ELSE IF zla = "POINTER_BLOCK_DOUBLE"
    THEN [raised |-> "",
          idx |-> <<block_num \div Pow2(2 * shift),
                    block_num \div Pow2(shift),
                    IntAnd(block_num, Pow2(shift) - 1)>>]
    ELSE [raised |-> "TypeError", idx |-> <<>>]

\* FileDescriptor5._offset_to_block_address, FileDescriptor6._offset_to_block_address:
\* the indices block_num is looked up with: primary_num in self.blocks, then
\* secondary_num and tertiary_num in the pointer blocks read
block_indices(zla, block_num, shift) ==
    IF zla \in {"FILE_BLOCK", "SUB_BLOCK"} THEN [raised |-> "", idx |-> <<block_num>>]
    ELSE IF zla \in {"POINTER_BLOCK", "POINTER2_BLOCK"}
    THEN [raised |-> "",
          idx |-> <<block_num \div Pow2(shift), IntAnd(block_num, Pow2(shift) - 1)>>]
    ELSE IF zla = "POINTER_BLOCK_DOUBLE"
    THEN [raised |-> "",
          idx |-> <<block_num \div Pow2(2 * shift),
                    IntAnd(block_num \div Pow2(shift), Pow2(shift) - 1),
                    IntAnd(block_num, Pow2(shift) - 1)>>]
    ELSE [raised |-> "TypeError", idx |-> <<>>]

\* FileBlockResourceVMFS5.resolve_address: the file descriptor of the resource
\* has the file block size of the filesystem (ResourceManager.open)
FileBlockResourceVMFS5_resolve_address(fs, block) ==
    BitsToInt(FileBlockAddr_parse(block)) * Pow2(fs.file_block_size_shift)

\* SmallFileBlockResourceVMFS6.resolve_address
SmallFileBlockResourceVMFS6_resolve_address(fs, block) ==
    ((BitsToInt(SmallFileBlockAddr_parse(block)[1]) * fs.resourcesPerCluster)
     + BitsToInt(SmallFileBlockAddr_parse(block)[2])) * Pow2(fs.file_block_size_shift)

\* LargeFileBlockResourceVMFS6.resolve_address with the sizes of the filesystem
lfb_block_offset(fs, cr) ==
    ((cr[1] * Pow2(bsf(fs.resourcesPerCluster))) + cr[2])
    * Pow2(fs.file_block_size_shift + fs.sfbToLfbShift)

\* resource.resolve_address(block) of the open resource of the type
Resource_resolve_address(fs, type, block) ==
    IF type = FS3_AddrType_FILE_BLOCK
    THEN IF fs.ver = 5 THEN FileBlockResourceVMFS5_resolve_address(fs, block)
         ELSE SmallFileBlockResourceVMFS6_resolve_address(fs, block)
    ELSE IF type = FS3_AddrType_LARGE_FILE_BLOCK
    THEN lfb_block_offset(fs, LargeFileBlockResourceVMFS6_parse_address(
                                  [resourcesPerCluster |-> fs.resourcesPerCluster], block))
    ELSE resolve_address_as(fs.ver, type, block)

\* vmfs._sfb_size: the small file blocks of a cluster
sfb_size(fs) == fs.resourcesPerCluster

\* FileDescriptor5._resolve_offset: no resource yet, the offset of a file block
fb_offset_no_resource(fs, fd, block) ==
    BitsToInt(FileBlockAddr_parse(block)) * Pow2(fd.blockOffsetShift)

\* The offset of a small file block without the small file blocks of a cluster
sfb_offset_no_resource_no_cluster_size(fs, fd, block) ==
    (BitsToInt(SmallFileBlockAddr_parse(block)[1])
     + BitsToInt(SmallFileBlockAddr_parse(block)[2])) * Pow2(fd.blockOffsetShift)

\* FileDescriptor6._resolve_offset: no resource yet, the offset of a small file block
sfb_offset_no_resource_of(fs, fd, block) ==
    ((BitsToInt(SmallFileBlockAddr_parse(block)[1]) * sfb_size(fs))
     + BitsToInt(SmallFileBlockAddr_parse(block)[2])) * Pow2(fd.blockOffsetShift)

\* The outcome of _resolve_offset: an exception, or the block_offset,
\* offset_in_block and tbz of which (block_offset + offset_in_block, tbz) is returned
Resolved(block_offset, offset_in_block, tbz) ==
    [raised |-> "", block_offset |-> block_offset, offset_in_block |-> offset_in_block,
     out |-> block_offset + offset_in_block, tbz |-> tbz]

ResolveRaised(error) ==
    [raised |-> error, block_offset |-> 0, offset_in_block |-> 0, out |-> 0, tbz |-> 0]

\* FileDescriptor5._resolve_offset, from the block address on
FileDescriptor5_resolve_block(fs, fd, offset, block) ==
    IF address_type(block) \in fs.open
    THEN Resolved(Resource_resolve_address(fs, address_type(block), block),
                  IntAnd(offset, fd.blockSize - 1),
                  IF address_type(block) = FS3_AddrType_FILE_BLOCK THEN Tbz5(block) ELSE 0)
    ELSE IF address_type(block) = FS3_AddrType_FILE_BLOCK
    THEN Resolved(fb_offset_no_resource(fs, fd, block),
                  IntAnd(offset, fd.blockSize - 1), Tbz5(block))
    ELSE ResolveRaised("TypeError")

\* FileDescriptor6._resolve_offset: offset_in_block with the mask of the file
\* blocks for every type
offset_in_block6_file_block_mask(fs, offset, type) ==
    IF type = FS3_AddrType_LARGE_FILE_BLOCK
    THEN IntAnd(offset, Pow2(fs.sfbToLfbShift + fs.file_block_size_shift) - 1)
    ELSE IntAnd(offset, Pow2(fs.file_block_size_shift) - 1)

\* FileDescriptor6._resolve_offset: offset_in_block for the type of the address
offset_in_block6_of(fs, offset, type) ==
    IF type = FS3_AddrType_LARGE_FILE_BLOCK
    THEN IntAnd(offset, Pow2(fs.sfbToLfbShift + fs.file_block_size_shift) - 1)
    ELSE IF type = FS3_AddrType_SMALL_FILE_BLOCK
    THEN IntAnd(offset, Pow2(fs.file_block_size_shift) - 1)
    ELSE IntAnd(offset, Pow2(fs.sub_block_size_shift) - 1)

\* FileDescriptor6._resolve_offset, from the block address on
FileDescriptor6_resolve_block(fs, fd, offset, block) ==
    IF address_type(block) \notin fs.open
       /\ address_type(block) # FS3_AddrType_SMALL_FILE_BLOCK
    THEN ResolveRaised("TypeError")
    ELSE IF address_type(block) \notin {FS3_AddrType_LARGE_FILE_BLOCK,
                                        FS3_AddrType_SMALL_FILE_BLOCK,
                                        FS3_AddrType_SUB_BLOCK}
    THEN ResolveRaised("TypeError")
    ELSE Resolved(IF address_type(block) \in fs.open
                  THEN Resource_resolve_address(fs, address_type(block), block)
                  ELSE sfb_offset_no_resource_of(fs, fd, block),
                  offset_in_block6_of(fs, offset, address_type(block)),
                  IF address_type(block) \in {FS3_AddrType_SMALL_FILE_BLOCK,
                                              FS3_AddrType_LARGE_FILE_BLOCK}
                  THEN Tbz6(block) ELSE 0)

\* self._resolve_offset of the descriptor class of the version, from the block
\* address on
resolve_block(fs, fd, offset, block) ==
    IF fs.ver = 5 THEN FileDescriptor5_resolve_block(fs, fd, offset, block)
    ELSE FileDescriptor6_resolve_block(fs, fd, offset, block)

OffsetIdle ==
    /\ o_fs = [ver |-> 0]
    /\ o_rd = NoCall

\* The resources that are open: all of them, none yet, or those opened before
\* the file block resource
OpenSets(ver) ==
    {ResourceTypes(ver), {},
     {FS3_AddrType_FILE_DESCRIPTOR, FS3_AddrType_POINTER2_BLOCK, FS3_AddrType_POINTER_BLOCK}}

OffsetInit ==
    /\ \E ver \in {5, 6} :
         o_fs \in {[ver |-> ver, open |-> open,
                    file_block_size_shift |-> 2, sub_block_size_shift |-> 1,
                    sfbToLfbShift |-> 1, ptr_block_num_shift |-> p,
                    resourcesPerCluster |-> rpc] :
                      open \in OpenSets(ver), p \in {1, 2}, rpc \in {2, 3}}
    /\ o_rd = NoCall

\* FS3_FileMetadata of a file of file blocks and of a file of sub-blocks: the
\* block size of the file is the size of the blocks it is made of
FileOf(fs, blocks) ==
    IF blocks = "sub-blocks"
    THEN [blocks |-> blocks, blockSize |-> Pow2(fs.sub_block_size_shift),
          blockOffsetShift |-> fs.sub_block_size_shift]
    ELSE [blocks |-> blocks, blockSize |-> Pow2(fs.file_block_size_shift),
          blockOffsetShift |-> fs.file_block_size_shift]

\* The block addresses that name no data block: the null address of a block
\* that is not allocated, and addresses of pointer blocks, file descriptors
\* and journal blocks
NoDataAddresses(ver) ==
    {{}, FileDescriptorAddr_make({0}, {0}), JournalBlockAddr_make({0}, {0})}
    \cup (IF ver = 5
          THEN {PointerBlockAddr_make({0}, {0}, {}), PointerBlock2Addr_make({0}, {0}, {})}
          ELSE {PointerBlockAddr64_make({0}, {0}, {}), PointerBlock2Addr64_make({0}, {0}, {})})

\* The block addresses _offset_to_block_address gives for a file
BlockAddresses(ver, blocks) ==
    NoDataAddresses(ver)
    \cup (IF blocks = "sub-blocks"
          THEN {IF ver = 5 THEN SubBlockAddr_make(IntToBits(c), IntToBits(r), {})
                ELSE SubBlockAddr64_make(IntToBits(c), IntToBits(r), {}) :
                    c \in 0..1, r \in 0..1}
          ELSE {LargeFileBlockAddr_make(IntToBits(b), {}, tbz) :
                    b \in 0..3, tbz \in {{}, {0}}}
               \cup (IF ver = 5
                     THEN {FileBlockAddr_make(IntToBits(b), {}, tbz) :
                               b \in 0..3, tbz \in {{}, {0}}}
                     ELSE {SmallFileBlockAddr_make(IntToBits(c), IntToBits(r), {}, tbz) :
                               c \in 0..2, r \in 0..2, tbz \in {{}, {0}, {7}}}))

\* FileDescriptor5._resolve_offset, FileDescriptor6._resolve_offset of a file
\* that is not resident, after _offset_to_block_address gave the block address
OffsetResolve ==
    /\ o_rd.pc = "none"
    /\ \E blocks \in {"file blocks", "sub-blocks"}, offset \in 0..MaxFileOffset :
         \E block \in BlockAddresses(o_fs.ver, blocks) :
            o_rd' = [pc |-> "done", op |-> "_resolve_offset",
                     fd |-> FileOf(o_fs, blocks), offset |-> offset, block |-> block,
                     type |-> address_type(block),
                     r |-> resolve_block(o_fs, FileOf(o_fs, blocks), offset, block)]
    /\ UNCHANGED o_fs
    /\ UNCHANGED OtherThanOffset

\* FileDescriptor5._offset_to_block_address, FileDescriptor6._offset_to_block_address
\* for an offset of block number block_num: the indices the block address is
\* looked up with
OffsetToBlockAddress ==
    /\ o_rd.pc = "none"
    /\ \E zla \in ZeroLevelAddrTypes, block_num \in 0..MaxBlockNum :
         o_rd' = [pc |-> "done", op |-> "_offset_to_block_address",
                  zla |-> zla, block_num |-> block_num,
                  r |-> block_indices(zla, block_num, o_fs.ptr_block_num_shift)]
    /\ UNCHANGED o_fs
    /\ UNCHANGED OtherThanOffset

OffsetNext == OffsetResolve \/ OffsetToBlockAddress

\* _resolve_offset has returned or raised
OffsetResolved == o_rd.pc = "done" /\ o_rd.op = "_resolve_offset"

\* _offset_to_block_address has returned or raised
OffsetIndexed == o_rd.pc = "done" /\ o_rd.op = "_offset_to_block_address"

PtrsOf(fs) == Pow2(fs.ptr_block_num_shift)

\* C18: with N = 2^ptr_block_num_shift, the indices used for block number b
\* satisfy b = primary * N + secondary with 0 <= secondary < N for the single
\* indirection, b = primary * N^2 + secondary * N + tertiary with 0 <=
\* secondary, tertiary < N for the double indirection, and no other block
\* number uses the same indices.
C18_Indices ==
    (OffsetIndexed /\ o_rd.r.raised = "") =>
        /\ o_rd.zla \in {"POINTER_BLOCK", "POINTER2_BLOCK"} =>
              /\ Len(o_rd.r.idx) = 2
              /\ o_rd.block_num = (o_rd.r.idx[1] * PtrsOf(o_fs)) + o_rd.r.idx[2]
              /\ o_rd.r.idx[1] >= 0
              /\ o_rd.r.idx[2] >= 0 /\ o_rd.r.idx[2] < PtrsOf(o_fs)
        /\ o_rd.zla = "POINTER_BLOCK_DOUBLE" =>
              /\ Len(o_rd.r.idx) = 3
              /\ o_rd.block_num = (o_rd.r.idx[1] * PtrsOf(o_fs) * PtrsOf(o_fs))
                                  + (o_rd.r.idx[2] * PtrsOf(o_fs)) + o_rd.r.idx[3]
              /\ o_rd.r.idx[1] >= 0
              /\ o_rd.r.idx[2] >= 0 /\ o_rd.r.idx[2] < PtrsOf(o_fs)
              /\ o_rd.r.idx[3] >= 0 /\ o_rd.r.idx[3] < PtrsOf(o_fs)
        /\ \A b \in 0..MaxBlockNum :
              b # o_rd.block_num =>
                  block_indices(o_rd.zla, b, o_fs.ptr_block_num_shift).idx # o_rd.r.idx

C18_Witness ==
    /\ OffsetIndexed
    /\ o_rd.zla = "POINTER_BLOCK_DOUBLE"
    /\ o_fs.ptr_block_num_shift = 2
    /\ o_rd.block_num = 17
    /\ o_rd.r.idx = <<1, 0, 1>>

\* The kinds of address of a data block: FB and SFB, SB, LFB
DataBlockTypes ==
    {FS3_AddrType_FILE_BLOCK, FS3_AddrType_SMALL_FILE_BLOCK, FS3_AddrType_SUB_BLOCK,
     FS3_AddrType_LARGE_FILE_BLOCK}

\* _offset_to_block_address raises TypeError for a ZLA it does not know
ZlaTypeError ==
    (OffsetIndexed /\ o_rd.zla \notin {"FILE_BLOCK", "SUB_BLOCK", "POINTER_BLOCK",
                                       "POINTER2_BLOCK", "POINTER_BLOCK_DOUBLE"}) =>
        (o_rd.r.raised = "TypeError" /\ o_rd.r.idx = <<>>)

\* C19 as stated: on VMFS5 and on VMFS6 _resolve_offset raises TypeError and
\* returns no offset for every block address that is not of a data block kind
\* (the null address, PB, FD, PB2, JB), and _offset_to_block_address raises
\* TypeError for every ZLA that is not FILE_BLOCK, SUB_BLOCK, POINTER_BLOCK,
\* POINTER2_BLOCK or POINTER_BLOCK_DOUBLE.
C19_TypeError ==
    /\ (OffsetResolved /\ o_rd.type \notin DataBlockTypes) => o_rd.r.raised = "TypeError"
    /\ ZlaTypeError

\* C19, what the code does: on VMFS6, and on VMFS5 when no resource of the
\* kind of the address is open, _resolve_offset raises TypeError for an address
\* that is not of a data block kind; on VMFS5 with the resource of the kind
\* open it returns the offset that resource resolves the address to.
C19_TypeErrorUnlessOpen5 ==
    /\ (OffsetResolved /\ o_rd.type \notin DataBlockTypes) =>
          IF o_fs.ver = 5 /\ o_rd.type \in o_fs.open
          THEN /\ o_rd.r.raised = ""
               /\ o_rd.r.block_offset = resolve_address_as(5, o_rd.type, o_rd.block)
          ELSE o_rd.r.raised = "TypeError"
    /\ ZlaTypeError

C19_Witness ==
    /\ OffsetResolved
    /\ o_fs.ver = 6
    /\ o_rd.type = FS3_AddrType_POINTER_BLOCK
    /\ FS3_AddrType_POINTER_BLOCK \in o_fs.open
    /\ o_rd.r.raised = "TypeError"

-----------------------------------------------------------------------------
(* descriptor.py: the loop of BlockStream._read *)

\* The loop of BlockStream._read is running
InReadLoop == f_rd.pc = "loop" /\ f_rd.stream = "BlockStream"

\* One iteration of the loop that read a span: the span is
\* min(remaining, block_size - (offset mod block_size)) bytes long, at least one
\* byte, ends no later than the block of its first byte, and starts where the
\* span before it ended
SpanRead ==
    (InReadLoop /\ f_rd'.pc = "loop" /\ f_rd' # f_rd) =>
        /\ f_rd'.offset - f_rd.offset = f_rd.length - f_rd'.length
        /\ f_rd'.offset - f_rd.offset >= 1
        /\ f_rd'.offset - f_rd.offset =
               Min(f_rd.length, block_size - (f_rd.offset % block_size))
        /\ (f_rd'.offset - 1) \div block_size = f_rd.offset \div block_size
        /\ f_rd'.length >= 0
        /\ f_rd'.offset0 = f_rd.offset0 /\ f_rd'.length0 = f_rd.length0

\* The spans read so far and what is left add up to the requested length
SpansAddUp ==
    InReadLoop => (f_rd.offset - f_rd.offset0) + f_rd.length = f_rd.length0

\* The loop ends by returning when nothing is left to read
LoopReturned ==
    (InReadLoop /\ f_rd'.pc = "returned") =>
        (f_rd.length = 0 /\ f_rd.offset = f_rd.offset0 + f_rd.length0)

\* C21: for block_size > 0 and length > 0 the loop of BlockStream._read ends:
\* every iteration reads a span of min(remaining, block_size - (offset mod
\* block_size)) >= 1 bytes and leaves that much less to read, never less than
\* nothing; no span crosses a multiple of block_size, and the lengths of the
\* spans add up to the requested length when the loop returns.
C21_ReadLoop == [][SpanRead /\ SpansAddUp /\ SpansAddUp' /\ LoopReturned]_vars

C21_Witness ==
    /\ f_rd.pc = "returned"
    /\ f_rd.stream = "BlockStream"
    /\ f_rd.offset0 = 1
    /\ f_rd.length0 = 4
    /\ Len(f_rd.result) = 4

-----------------------------------------------------------------------------
(* descriptor.py: the FS3_DirEntry array of a VMFS5 directory, byte by byte *)

\* Bounds of the array
MaxSlots == 2           \* the file holds 0 .. MaxSlots whole FS3_DirEntry
NameFieldLen == 3       \* the bytes of the name field (FS3_MAX_FILE_NAME_LENGTH)

\* The name fields: every field of the bytes NUL, "a", "b", and fields with
\* the two bytes of an e with an acute accent
NameFields ==
    [1..NameFieldLen -> {0, 97, 98}]
    \cup {[i \in 1..NameFieldLen |-> IF i = k THEN 195 ELSE IF i = k + 1 THEN 169 ELSE b] :
            k \in 1..(NameFieldLen - 1), b \in {0, 97}}

\* The bytes of a name field before its first NUL byte
RECURSIVE UpToNul(_)
UpToNul(s) ==
    IF s = <<>> \/ Head(s) = 0 THEN <<>> ELSE <<Head(s)>> \o UpToNul(Tail(s))

\* str.lstrip("\x00")
RECURSIVE LStripNul(_)
LStripNul(s) == IF s # <<>> /\ Head(s) = 0 THEN LStripNul(Tail(s)) ELSE s

\* str.rstrip("\x00")
RECURSIVE RStripNul(_)
RStripNul(s) ==
    IF s # <<>> /\ s[Len(s)] = 0 THEN RStripNul(SubSeq(s, 1, Len(s) - 1)) ELSE s

\* dirent.name.decode(): the code points of UTF-8 bytes, of sequences of one
\* and of two bytes
RECURSIVE Decode(_)
Decode(name) ==
    IF name = <<>> THEN <<>>
    ELSE IF Head(name) < 128 THEN <<Head(name)>> \o Decode(Tail(name))
    ELSE <<((Head(name) % 32) * 64) + (name[2] % 64)>> \o Decode(Tail(Tail(name)))

\* dirent.name.decode().strip("\x00")
decode_name(name) == RStripNul(LStripNul(Decode(name)))

\* FileDescriptor5._iterdir: one DirEntry for each of the first
\* size // len(FS3_DirEntry) slots whose descAddr is not 0
RECURSIVE iterdir5_entries(_, _)
iterdir5_entries(slots, n) ==
    IF n = 0 THEN <<>>
    ELSE iterdir5_entries(slots, n - 1)
         \o (IF slots[n].descAddr = 0 THEN <<>>
             ELSE <<[address |-> slots[n].descAddr, name |-> decode_name(slots[n].name),
                     slot |-> n]>>)

EntsIdle ==
    /\ e_dir = [size |-> 0, slots |-> <<>>]
    /\ e_rd = NoCall

\* A directory file of whole FS3_DirEntry slots and, after them, less than one
EntsInit ==
    /\ \E n \in 0..MaxSlots :
         e_dir \in [size : {n * len_FS3_DirEntry, (n * len_FS3_DirEntry) + 70},
                    slots : [1..n -> [descAddr : {0, 260},
                                      name : NameFields]]]
    /\ e_rd = NoCall

\* list(FileDescriptor5._iterdir())
EntsIterdir ==
    /\ e_rd.pc = "none"
    /\ e_rd' = [pc |-> "done", read |-> e_dir.size \div len_FS3_DirEntry,
                out |-> iterdir5_entries(e_dir.slots, e_dir.size \div len_FS3_DirEntry)]
    /\ UNCHANGED e_dir
    /\ UNCHANGED OtherThanEnts

EntsNext == EntsIterdir

\* The slots of the array whose descAddr is not 0, in the order of the array
UsedSlots == SelectSeq([i \in 1..Len(e_dir.slots) |-> i],
                       LAMBDA i : e_dir.slots[i].descAddr # 0)

\* One entry for each slot whose descAddr is not 0 and none for another
OneEntryPerUsedSlot ==
    /\ e_rd.read = e_dir.size \div len_FS3_DirEntry
    /\ e_rd.read = Len(e_dir.slots)
    /\ Len(e_rd.out) = Len(UsedSlots)
    /\ \A k \in 1..Len(e_rd.out) :
          /\ e_rd.out[k].slot = UsedSlots[k]
          /\ e_rd.out[k].address = e_dir.slots[UsedSlots[k]].descAddr

\* C22 as stated: VMFS5 iterdir() reads fileLength // sizeof(FS3_DirEntry)
\* slots, yields one entry for each slot whose descAddr is not 0 and none for
\* a slot whose descAddr is 0, and the name of an entry is the bytes of the
\* name field before its first NUL byte, decoded as UTF-8.
C22_Iterdir5 ==
    e_rd.pc = "done" =>
        /\ OneEntryPerUsedSlot
        /\ \A k \in 1..Len(e_rd.out) :
              e_rd.out[k].name = Decode(UpToNul(e_dir.slots[e_rd.out[k].slot].name))

\* The name field is a name followed by NUL bytes only
NulPadded(name) == \A i, j \in 1..Len(name) : (i < j /\ name[i] = 0) => name[j] = 0

\* C22, what the code does: one entry for each slot whose descAddr is not 0;
\* the name of an entry is the name field without the NUL bytes at its start
\* and at its end, which is the bytes before the first NUL byte when no other
\* byte follows a NUL byte in the field.
C22_Iterdir5Stripped ==
    e_rd.pc = "done" =>
        /\ OneEntryPerUsedSlot
        /\ \A k \in 1..Len(e_rd.out) :
              /\ e_rd.out[k].name # <<>> =>
                    (e_rd.out[k].name[1] # 0 /\ e_rd.out[k].name[Len(e_rd.out[k].name)] # 0)
              /\ \E a, b \in 0..NameFieldLen :
                    Decode(e_dir.slots[e_rd.out[k].slot].name) =
                        [i \in 1..a |-> 0] \o e_rd.out[k].name \o [i \in 1..b |-> 0]
              /\ NulPadded(e_dir.slots[e_rd.out[k].slot].name) =>
                    e_rd.out[k].name = Decode(UpToNul(e_dir.slots[e_rd.out[k].slot].name))

C22_Witness ==
    /\ e_rd.pc = "done"
    /\ Len(e_dir.slots) = 2
    /\ e_dir.slots[1].descAddr = 0
    /\ e_dir.slots[2].descAddr = 260
    /\ e_dir.slots[2].name = <<195, 169, 0>>
    /\ e_rd.out = <<[address |-> 260, name |-> <<233>>, slot |-> 2]>>

-----------------------------------------------------------------------------
(* descriptor.py: FileDescriptor6._iterdir and the numEntries of the header *)

\* A VMFS6 directory whose header holds any numEntries, and no self or no
\* parent entry
DirCountInit ==
    /\ \E address \in {rootDirDescAddr, rootDirDescAddr + 64 * (MaxNames + 1)} :
       \E ents \in DirContents :
          d_dir \in {[DirOf(6, TRUE, address, ents) EXCEPT
                         !.header.numEntries = n,
                         !.header.selfEntry.address = IF self THEN address ELSE 0,
                         !.header.parentEntry.address = IF parent THEN rootDirDescAddr ELSE 0] :
                       n \in 0..(MaxNames + 3), self \in BOOLEAN, parent \in BOOLEAN}
    /\ d_rd = NoCall

\* iterdir() of a VMFS6 directory has run to its end
Iterated6 == d_rd.pc = "done" /\ d_rd.op = "iterdir" /\ d_dir.ver = 6 /\ d_dir.is_dir

\* The entries the directory holds: those of the header and the live ones
HeldEntries ==
    (IF d_dir.header.selfEntry.address # 0 THEN 1 ELSE 0)
    + (IF d_dir.header.parentEntry.address # 0 THEN 1 ELSE 0)
    + Cardinality(LiveEntries(d_dir.ents))

\* C23 as stated: VMFS6 iterdir() never yields more than header.numEntries
\* entries in total, the self and parent entries of the header counted, for
\* every value of numEntries including 0 and 1.
C23_AtMostNumEntries ==
    Iterated6 => Len(d_rd.result) <= d_dir.header.numEntries

\* C23, what the code does: iterdir() yields no more than numEntries entries
\* when numEntries is at least 1 or the header has no self entry; with
\* numEntries 0 and a self entry it yields every entry the directory holds.
C23_AtMostNumEntriesUnlessZero ==
    Iterated6 =>
        IF d_dir.header.numEntries = 0 /\ d_dir.header.selfEntry.address # 0
        THEN Len(d_rd.result) = HeldEntries
        ELSE /\ Len(d_rd.result) <= d_dir.header.numEntries
             /\ Len(d_rd.result) <= HeldEntries

C23_Witness ==
    /\ Iterated6
    /\ d_dir.header.numEntries = 3
    /\ HeldEntries = 4
    /\ Len(d_rd.result) = 3

-----------------------------------------------------------------------------
(* descriptor.py: the walk of FileDescriptor6._get over link groups of any content *)

LinkGroupSlots == 2     \* the link groups a directory file holds
MaxHops == 4            \* the turns of the loop of _get a run is followed for

LinkLocation(slot) == make_location(FS6_DirBlockType_LINK, LinkBlockNum, slot)

\* The hash index of the names a, b, c in a directory that is not the root
ChainIdx == dir_name_hash("a", FALSE)[2]

\* What a link of a link group may hold: a hash and the location of an entry
\* or of a link group
LinkChoices ==
    {[hash |-> dir_name_hash("a", FALSE)[1], location |-> DirentLocation(1)],
     [hash |-> dir_name_hash("b", FALSE)[1], location |-> DirentLocation(2)],
     [hash |-> dir_name_hash("a", FALSE)[1], location |-> LinkLocation(0)]}

\* The link groups a file may hold: at slot 0 any number of free links, any
\* links, and a nextGroup that is zero or leads to the group itself or to the
\* next one; at another slot any hash index, the same link in every place,
\* and a nextGroup that is zero or leads back to the group at slot 0
LinkGroupChoices(slot) ==
    IF slot = 0
    THEN [hashIndex : {ChainIdx},
          totalLinks : {LinksPerGroup},
          freeLinks : 0..LinksPerGroup,
          links : [1..LinksPerGroup -> LinkChoices],
          nextGroup : {0, LinkLocation(0), LinkLocation(1)}]
    ELSE [hashIndex : {ChainIdx, ChainIdx + 4},
          totalLinks : {LinksPerGroup},
          freeLinks : {0},
          links : {[k \in 1..LinksPerGroup |-> link] : link \in LinkChoices},
          nextGroup : {0, LinkLocation(0)}]

\* A VMFS6 directory whose hash table leads the names a, b, c to the link
\* group at slot 0, with link groups of any content
DirLinksInit ==
    /\ \E groups \in [0..(LinkGroupSlots - 1) -> UNION {LinkGroupChoices(s) : s \in 0..(LinkGroupSlots - 1)}] :
          /\ \A s \in 0..(LinkGroupSlots - 1) : groups[s] \in LinkGroupChoices(s)
          /\ d_dir = [DirOf(6, TRUE, rootDirDescAddr + 64 * (MaxNames + 1),
                            <<[name |-> "a", live |-> TRUE], [name |-> "b", live |-> TRUE]>>)
                        EXCEPT !.hash = [off \in {hash_entry_offset(ChainIdx)} |-> LinkLocation(0)],
                               !.groups = [off \in {link_group_offset(LinkBlockNum, s) :
                                                      s \in 0..(LinkGroupSlots - 1)} |->
                                             groups[CHOOSE s \in 0..(LinkGroupSlots - 1) :
                                                        link_group_offset(LinkBlockNum, s) = off]]]
    /\ d_rd = NoCall

\* One turn of the loop of _get, followed for MaxHops turns
DirLinkResolveOnce ==
    /\ d_rd.pc = "resolve"
    /\ d_rd.hops < MaxHops
    /\ DirLinkResolve

DirLinksNext ==
    \/ DirGetStart
    \/ DirLinkResolveOnce
    \/ DirGetReturn

AtLinkGroup == d_rd.pc = "resolve" /\ d_rd.type = FS6_DirBlockType_LINK

\* The location the loop of _get is at after n more turns from a location
\* (<<0, 0, 0>> once the loop has ended)
RECURSIVE LinkWalk(_, _, _, _, _)
LinkWalk(dir, location, hash_idx, link_hash, n) ==
    IF location[1] # FS6_DirBlockType_LINK THEN <<0, 0, 0>>
    ELSE IF n = 0 THEN location
    ELSE IF LinkGroupAt(dir, link_group_offset(location[2], location[3])).hashIndex # hash_idx
    THEN <<0, 0, 0>>
    ELSE LinkWalk(dir,
                  dir_link_resolve(LinkGroupAt(dir, link_group_offset(location[2], location[3])),
                                   hash_idx, link_hash),
                  hash_idx, link_hash, n - 1)

\* The link groups lead from the location the loop is at back to it
LinkLoops ==
    \E n \in 1..LinkGroupSlots :
        LinkWalk(d_dir, <<d_rd.type, d_rd.block, d_rd.slot>>, d_rd.hash_idx, d_rd.link_hash, n)
            = <<d_rd.type, d_rd.block, d_rd.slot>>

\* C24 as stated: the VMFS6 name lookup terminates for every content of the
\* link blocks: the loop over LINK locations is never at a location the link
\* groups lead back to, and it takes no more turns than the file has link
\* groups, also when nextGroup or link locations form a cycle.
C24_LinkWalkEnds ==
    (d_rd.pc # "none" /\ d_rd.op = "get")
        => /\ d_rd.hops <= LinkGroupSlots
           /\ AtLinkGroup => ~LinkLoops

\* C24, what the code does: a lookup that ends has taken no more turns than
\* the file has link groups, and a loop that takes more turns is on a cycle
\* of the link groups, which it follows without end.
C24_LinkWalkEndsUnlessCycle ==
    (d_rd.pc # "none" /\ d_rd.op = "get")
        => /\ d_rd.pc = "done" => d_rd.hops <= LinkGroupSlots
           /\ d_rd.hops > LinkGroupSlots => (AtLinkGroup /\ LinkLoops)
           /\ (AtLinkGroup /\ LinkLoops /\ d_rd.hops < MaxHops) => ENABLED DirLinkResolveOnce

C24_Witness ==
    /\ AtLinkGroup
    /\ LinkLoops
    /\ d_rd.hops = MaxHops

\* The link group the loop of _get is at, and the links of it that are in use
\* and carry the link hash looked for
VisitedGroup == LinkGroupAt(d_dir, link_group_offset(d_rd.block, d_rd.slot))
MatchingLinks ==
    {k \in 1..(VisitedGroup.totalLinks - VisitedGroup.freeLinks) :
        VisitedGroup.links[k].hash = d_rd.link_hash}
FirstMatchingLink == CHOOSE k \in MatchingLinks : \A j \in MatchingLinks : k <= j

\* C25: at a LINK location the lookup goes to the location of the first link
\* of the group, among its totalLinks - freeLinks links in use, whose hash is
\* link_hash; to nextGroup only when no such link is in the group; it raises
\* FileNotFoundError when the group's hashIndex differs from hash_idx, and
\* when the chain ends with nextGroup zero and no match.
LinkGroupVisited ==
    (AtLinkGroup /\ d_rd' # d_rd)
        => IF VisitedGroup.hashIndex # d_rd.hash_idx
           THEN d_rd'.pc = "done" /\ d_rd'.result = Raised("FileNotFoundError")
           ELSE /\ d_rd'.pc = "resolve"
                /\ <<d_rd'.type, d_rd'.block, d_rd'.slot>> =
                     dir_parse_location(IF MatchingLinks # {}
                                        THEN VisitedGroup.links[FirstMatchingLink].location
                                        ELSE VisitedGroup.nextGroup)
                /\ (MatchingLinks = {} /\ VisitedGroup.nextGroup = 0) => d_rd'.type = 0
ChainEnded ==
    (d_rd.pc = "resolve" /\ d_rd.type = 0 /\ d_rd' # d_rd)
        => d_rd'.pc = "done" /\ d_rd'.result = Raised("FileNotFoundError")
C25_LinkChain == [][LinkGroupVisited /\ ChainEnded]_vars

\* A lookup that passed a group without a match and found the entry through
\* a link of the next group
C25_Witness ==
    /\ d_rd.pc = "done"
    /\ d_rd.op = "get"
    /\ d_rd.hops = 2
    /\ d_rd.result.kind = "entry"
    /\ d_dir.groups[link_group_offset(LinkBlockNum, 0)].freeLinks = 1
    /\ d_dir.groups[link_group_offset(LinkBlockNum, 0)].links[2].hash
         = dir_name_hash(d_rd.name, FALSE)[1]

-----------------------------------------------------------------------------
(* descriptor.py: the range of the hashes of a name *)

HashIdle ==
    /\ h_in = [name |-> ""]
    /\ h_rd = NoCall

\* The 16-bit words the sample values of lookup8_quads are made of
HashWords == {0, 1, 15972, 15973, 15974, 16000, 16001, 65535}

\* A name, the directory it is looked up in, and the value lookup8_quads
\* gives for it: any 64-bit value of the sample
HashInit ==
    /\ h_in \in [name : DOMAIN SYSTEM_FILE_HASHES \cup {"a", "vm.vmdk"},
                 in_root : BOOLEAN,
                 result : {<<0, 0, 0, w>> : w \in HashWords}
                          \cup [1..4 -> {0, 15974, 65535}]]
    /\ h_rd = NoCall

\* _dir_name_hash(name, in_root)
HashName ==
    /\ h_rd.pc = "none"
    /\ h_rd' = [pc |-> "done",
                link_hash |-> dir_name_hash_of(h_in.name, h_in.in_root, h_in.result)[1],
                hash_idx |-> dir_name_hash_of(h_in.name, h_in.in_root, h_in.result)[2]]
    /\ UNCHANGED h_in
    /\ UNCHANGED OtherThanHash

\* The hash indices of the system files
SystemFileIndices == {SYSTEM_FILE_HASHES[n][2] : n \in DOMAIN SYSTEM_FILE_HASHES}

\* C26: _dir_name_hash returns link_hash in [0, 2^16) and hash_idx in
\* [0, 16001); in the root directory a name that is no system-file name gets
\* hash_idx < 16001 - 28 = 15973 and so none of the indices 0x3E66 .. 0x3E6F of
\* the system files, which all lie in the reserved range [15973, 16001).
C26_HashRange ==
    h_rd.pc = "done"
        => /\ h_rd.link_hash \in 0..65535
           /\ h_rd.hash_idx \in 0..16000
           /\ (h_in.in_root /\ h_in.name \notin DOMAIN SYSTEM_FILE_HASHES)
                 => (h_rd.hash_idx < 15973 /\ h_rd.hash_idx \notin SystemFileIndices)
           /\ SystemFileIndices = 15974..15983
           /\ SystemFileIndices \subseteq (16001 - 28)..16000

\* A name of the root directory whose 64-bit value is 15972 modulo 15973
C26_Witness ==
    /\ h_rd.pc = "done"
    /\ h_in.in_root
    /\ h_in.name = "vm.vmdk"
    /\ h_in.result = <<0, 0, 0, 15972>>
    /\ h_rd.hash_idx = 15972

-----------------------------------------------------------------------------
(* resource.py: ResourceManager *)

\* The values of FS3_ResourceTypeID the calls are made with: INVALID,
\* FILE_BLOCK / SMALL_FILE_BLOCK, SUB_BLOCK and JOURNAL_BLOCK
ManagedTypes == {0, 1, 2, 6}

\* The keys of RESOURCE_TYPE_MAP_VMFS5 and RESOURCE_TYPE_MAP_VMFS6
ResourceTypeValues(ver) == IF ver = 5 THEN 1 .. 5 ELSE 1 .. 7

\* vmfs.file_block_size, and the address of a system file descriptor
MgrFileBlockSize == 4
SfdAddress == 4

\* The system file descriptors _get_sfd may return for an address
SfdChoices(address) ==
    [descAddr : {address, address + 64}, block_size : {MgrFileBlockSize, 2 * MgrFileBlockSize},
     type : {"SYSFILE", "REGFILE"}]

\* The sanity check of open() on the descriptor of the resource file
SfdAccepted(fd, address) ==
    ~(\/ fd.descAddr # address
      \/ fd.block_size # MgrFileBlockSize
      \/ fd.type # "SYSFILE")

\* ResourceManager.open without the check for a resource already opened
ResourceManager_open_again(mgr, type, address, fileobj, fd, signature_ok) ==
    IF type \notin ResourceTypeValues(mgr.ver)
    THEN [raised |-> "TypeError", resources |-> mgr.resources]
    ELSE IF address = 0 /\ ~fileobj
    THEN [raised |-> "ValueError", resources |-> mgr.resources]
    ELSE IF ~fileobj /\ ~SfdAccepted(fd, address)
    THEN [raised |-> "ValueError", resources |-> mgr.resources]
    ELSE IF mgr.ver = 6 /\ ~signature_ok
    THEN [raised |-> "ValueError", resources |-> mgr.resources]
    ELSE [raised |-> "",
          resources |-> [t \in DOMAIN mgr.resources \cup {type} |->
                            IF t = type
                            THEN [type |-> type, address |-> address, has_fd |-> ~fileobj]
                            ELSE mgr.resources[t]]]

\* ResourceManager.open(type, address, fileobj): address 0 stands for None,
\* fd is what _get_sfd returns, signature_ok says whether the file begins
\* with the signature of a resource file
ResourceManager_open(mgr, type, address, fileobj, fd, signature_ok) ==
    IF type \in DOMAIN mgr.resources
    THEN [raised |-> "ValueError", resources |-> mgr.resources]
    ELSE ResourceManager_open_again(mgr, type, address, fileobj, fd, signature_ok)

\* ResourceManager.close(type)
ResourceManager_close(mgr, type) ==
    IF type \notin DOMAIN mgr.resources
    THEN [raised |-> "ValueError", resources |-> mgr.resources]
    ELSE [raised |-> "",
          resources |-> [t \in DOMAIN mgr.resources \ {type} |-> mgr.resources[t]]]

\* ResourceManager.has(type)
ResourceManager_has(mgr, type) == type \in DOMAIN mgr.resources

MgrIdle ==
    /\ g_mgr = [ver |-> 0]
    /\ g_rd = NoCall

\* ResourceManager.__init__: self.resources = {}
MgrInit ==
    /\ g_mgr \in [ver : {5, 6}, resources : {<<>>}]
    /\ g_rd = NoCall

MgrOpen ==
    /\ \E type \in ManagedTypes, address \in {0, SfdAddress}, fileobj \in BOOLEAN,
          signature_ok \in BOOLEAN :
       \E fd \in SfdChoices(address) :
          LET out == ResourceManager_open(g_mgr, type, address, fileobj, fd, signature_ok) IN
          /\ g_mgr' = [g_mgr EXCEPT !.resources = out.resources]
          /\ g_rd' = [pc |-> "done", op |-> "open", type |-> type, raised |-> out.raised,
                      unknown |-> type \notin ResourceTypeValues(g_mgr.ver),
                      nothing_given |-> address = 0 /\ ~fileobj,
                      fd_refused |-> ~fileobj /\ ~SfdAccepted(fd, address)]
    /\ UNCHANGED OtherThanMgr

MgrClose ==
    /\ \E type \in ManagedTypes :
          LET out == ResourceManager_close(g_mgr, type) IN
          /\ g_mgr' = [g_mgr EXCEPT !.resources = out.resources]
          /\ g_rd' = [pc |-> "done", op |-> "close", type |-> type, raised |-> out.raised]
    /\ UNCHANGED OtherThanMgr

MgrHas ==
    /\ \E type \in ManagedTypes :
          g_rd' = [pc |-> "done", op |-> "has", type |-> type, raised |-> "",
                   result |-> ResourceManager_has(g_mgr, type)]
    /\ UNCHANGED g_mgr
    /\ UNCHANGED OtherThanMgr

MgrNext == MgrOpen \/ MgrClose \/ MgrHas

\* The types with a registered resource
OpenTypes == DOMAIN g_mgr.resources

\* The resources registered for the types other than the one of the call stay
OthersKept ==
    \A t \in OpenTypes \ {g_rd'.type} :
        t \in OpenTypes' /\ g_mgr'.resources[t] = g_mgr.resources[t]

OpenCalled ==
    (g_rd' # g_rd /\ g_rd'.op = "open")
        => /\ g_rd'.type \in OpenTypes
              => (g_rd'.raised = "ValueError" /\ g_mgr' = g_mgr)
           /\ (g_rd'.unknown \/ g_rd'.nothing_given \/ g_rd'.fd_refused)
              => g_rd'.raised # ""
           /\ g_rd'.raised # "" => g_mgr' = g_mgr
           /\ g_rd'.raised = ""
              => /\ OpenTypes' = OpenTypes \cup {g_rd'.type}
                 /\ g_mgr'.resources[g_rd'.type].type = g_rd'.type
                 /\ OthersKept

CloseCalled ==
    (g_rd' # g_rd /\ g_rd'.op = "close")
        => /\ g_rd'.type \notin OpenTypes
              => (g_rd'.raised = "ValueError" /\ g_mgr' = g_mgr)
           /\ g_rd'.type \in OpenTypes
              => /\ g_rd'.raised = ""
                 /\ OpenTypes' = OpenTypes \ {g_rd'.type}
                 /\ OthersKept

HasCalled ==
    (g_rd' # g_rd /\ g_rd'.op = "has")
        => /\ g_rd'.result = (g_rd'.type \in OpenTypes)
           /\ g_mgr' = g_mgr

\* C28: over any sequence of open and close calls one resource is registered
\* per type value; open on a type that is open raises ValueError and keeps
\* the registered resource; an open that fails (type unknown for the version,
\* neither address nor file object, descriptor refused) leaves the open
\* resources unchanged; close on a type that is not open raises ValueError;
\* an open that returns adds its type, a close that returns removes its
\* type, and nothing else changes, so has(type) is true exactly for the types
\* opened and not closed since.
C28_ManagerFrame == [][OpenCalled /\ CloseCalled /\ HasCalled]_vars

\* has() after two types were opened and one of them closed again
C28_Witness ==
    /\ g_rd.pc = "done"
    /\ g_rd.op = "has"
    /\ g_rd.type = 6
    /\ g_rd.result
    /\ OpenTypes = {1, 6}
    /\ g_mgr.resources[1].has_fd

-----------------------------------------------------------------------------
(* The specifications *)

\* Each specification starts one part of the program and leaves the others idle
InitAddr == AddrInit /\ LvmIdle /\ FileIdle /\ DirIdle /\ DevIdle /\ TypeIdle /\ ResIdle /\ OffsetIdle /\ EntsIdle /\ HashIdle /\ MgrIdle
SpecAddr == InitAddr /\ [][AddrNext]_vars

InitLvm == LvmInit /\ AddrIdle /\ FileIdle /\ DirIdle /\ DevIdle /\ TypeIdle /\ ResIdle /\ OffsetIdle /\ EntsIdle /\ HashIdle /\ MgrIdle
SpecLvm == InitLvm /\ [][LvmNext]_vars

InitLvmValid == LvmValidInit /\ AddrIdle /\ FileIdle /\ DirIdle /\ DevIdle /\ TypeIdle /\ ResIdle /\ OffsetIdle /\ EntsIdle /\ HashIdle /\ MgrIdle
SpecLvmValid == InitLvmValid /\ [][LvmNext]_vars

InitFile == FileInit /\ AddrIdle /\ LvmIdle /\ DirIdle /\ DevIdle /\ TypeIdle /\ ResIdle /\ OffsetIdle /\ EntsIdle /\ HashIdle /\ MgrIdle
SpecFile == InitFile /\ [][FileNext]_vars

InitDir == DirInit /\ AddrIdle /\ LvmIdle /\ FileIdle /\ DevIdle /\ TypeIdle /\ ResIdle /\ OffsetIdle /\ EntsIdle /\ HashIdle /\ MgrIdle
SpecDir == InitDir /\ [][DirNext]_vars

InitDev == DevInit /\ AddrIdle /\ LvmIdle /\ FileIdle /\ DirIdle /\ TypeIdle /\ ResIdle /\ OffsetIdle /\ EntsIdle /\ HashIdle /\ MgrIdle
SpecDev == InitDev /\ [][DevNext]_vars

InitType == TypeInit /\ AddrIdle /\ LvmIdle /\ FileIdle /\ DirIdle /\ DevIdle /\ ResIdle /\ OffsetIdle /\ EntsIdle /\ HashIdle /\ MgrIdle
SpecType == InitType /\ [][TypeNext]_vars

InitRes == ResInit /\ AddrIdle /\ LvmIdle /\ FileIdle /\ DirIdle /\ DevIdle /\ TypeIdle /\ OffsetIdle /\ EntsIdle /\ HashIdle /\ MgrIdle
SpecRes == InitRes /\ [][ResNext]_vars

InitOffset == OffsetInit /\ AddrIdle /\ LvmIdle /\ FileIdle /\ DirIdle /\ DevIdle /\ TypeIdle /\ ResIdle /\ EntsIdle /\ HashIdle /\ MgrIdle
SpecOffset == InitOffset /\ [][OffsetNext]_vars


InitEnts == EntsInit /\ AddrIdle /\ LvmIdle /\ FileIdle /\ DirIdle /\ DevIdle /\ TypeIdle /\ ResIdle /\ OffsetIdle /\ HashIdle /\ MgrIdle
SpecEnts == InitEnts /\ [][EntsNext]_vars

InitDirCount == DirCountInit /\ AddrIdle /\ LvmIdle /\ FileIdle /\ DevIdle /\ TypeIdle /\ ResIdle /\ OffsetIdle /\ EntsIdle /\ HashIdle /\ MgrIdle
SpecDirCount == InitDirCount /\ [][DirIterdir]_vars

InitDirLinks == DirLinksInit /\ AddrIdle /\ LvmIdle /\ FileIdle /\ DevIdle /\ TypeIdle /\ ResIdle /\ OffsetIdle /\ EntsIdle /\ HashIdle /\ MgrIdle
SpecDirLinks == InitDirLinks /\ [][DirLinksNext]_vars

InitHash == HashInit /\ AddrIdle /\ LvmIdle /\ FileIdle /\ DirIdle /\ DevIdle /\ TypeIdle /\ ResIdle /\ OffsetIdle /\ EntsIdle /\ MgrIdle
SpecHash == InitHash /\ [][HashName]_vars

InitMgr == MgrInit /\ AddrIdle /\ LvmIdle /\ FileIdle /\ DirIdle /\ DevIdle /\ TypeIdle /\ ResIdle /\ OffsetIdle /\ EntsIdle /\ HashIdle
SpecMgr == InitMgr /\ [][MgrNext]_vars

====
